---- MODULE Spec2Model ----
(***************************************************************************)
(* Matching and explanation engine of the resume parser (app/main.py,      *)
(* app/db.py): skill registry, skill extraction (regex scan and phrase     *)
(* matcher), context terms, scoring and the /match handler.                *)
(*                                                                         *)
(* A Python str is a sequence of one-character strings, so offsets, case   *)
(* folding, word-character tests and lexicographic order are computed the  *)
(* way the interpreter computes them.                                      *)
(***************************************************************************)
EXTENDS Integers, Sequences, FiniteSets, TLC

VARIABLES
    pc,                    \* position of the process / of the request
    NLP,                   \* the pipeline loaded at import: "en_core_web_sm" or "blank"
    EMBEDDER,              \* the sentence-transformers model loaded at import, or None
    reload,                \* a reload of the registry in progress: what it has still to write
    render,                \* the last rendering call of the dashboard: inputs, html, slices taken
    registry_source,       \* content of skills_registry.json as read by load_skills_registry
    CANONICAL_SKILLS,      \* list[str]
    SKILL_ALIASES,         \* dict alias -> canonical name
    SKILL_PATTERNS,        \* keys of _SKILL_PATTERNS (each key carries its compiled pattern)
    SKILL_CANON_BY_PHRASE, \* dict phrase -> canonical name
    SKILL_MATCHER,         \* phrase patterns of the PhraseMatcher: lowercased token sequences
    call,                  \* the last extraction call: its name, its text, what it returned
    db,                    \* the job row and the resumes rows a /match request reads
    request,               \* the /match request: k
    response,              \* the /match response: status, note, results, and what the handler called
    ctx                    \* the last extract_context_terms call: inputs, NLP output, result

vars == <<pc, NLP, EMBEDDER, reload, render, registry_source, CANONICAL_SKILLS, SKILL_ALIASES, SKILL_PATTERNS,
          SKILL_CANON_BY_PHRASE, SKILL_MATCHER, call, db, request, response, ctx>>

-----------------------------------------------------------------------------
(* Bounds of the model *)

MaxTextLen == 4

MaxResumes == 3

-----------------------------------------------------------------------------
(* Characters and strings *)

LowerLetters == <<"a","b","c","d","e","f","g","h","i","j","k","l","m",
                  "n","o","p","q","r","s","t","u","v","w","x","y","z">>

UpperLetters == <<"A","B","C","D","E","F","G","H","I","J","K","L","M",
                  "N","O","P","Q","R","S","T","U","V","W","X","Y","Z">>

Digits == <<"0","1","2","3","4","5","6","7","8","9">>

IsDigit(c) == \E i \in 1..Len(Digits) : Digits[i] = c

IsLower(c) == \E i \in 1..Len(LowerLetters) : LowerLetters[i] = c

IsUpper(c) == \E i \in 1..Len(UpperLetters) : UpperLetters[i] = c

IsAlpha(c) == IsLower(c) \/ IsUpper(c)

IsSpace(c) == c = " "

\* \w of the re module: letters, digits and the underscore
IsWordChar(c) == IsAlpha(c) \/ IsDigit(c) \/ c = "_"

\* ord(c), the order sorted() compares strings by
CodePoint(c) ==
    IF IsLower(c) THEN 96 + (CHOOSE i \in 1..Len(LowerLetters) : LowerLetters[i] = c)
    ELSE IF IsUpper(c) THEN 64 + (CHOOSE i \in 1..Len(UpperLetters) : UpperLetters[i] = c)
    ELSE IF IsDigit(c) THEN 47 + (CHOOSE i \in 1..Len(Digits) : Digits[i] = c)
    ELSE IF c = " " THEN 32
    ELSE IF c = "-" THEN 45
    ELSE IF c = "_" THEN 95
    ELSE 0

\* str.lower() on one character
LowerChar(c) ==
    IF IsUpper(c) THEN LowerLetters[CHOOSE i \in 1..Len(UpperLetters) : UpperLetters[i] = c]
    ELSE c

\* str.lower()
LowerStr(s) == [i \in 1..Len(s) |-> LowerChar(s[i])]

\* str.strip()
Strip(s) ==
    IF \A i \in 1..Len(s) : IsSpace(s[i]) THEN <<>>
    ELSE LET first == CHOOSE i \in 1..Len(s) :
                         ~IsSpace(s[i]) /\ \A j \in 1..(i-1) : IsSpace(s[j])
             last  == CHOOSE i \in 1..Len(s) :
                         ~IsSpace(s[i]) /\ \A j \in (i+1)..Len(s) : IsSpace(s[j])
         IN SubSeq(s, first, last)

\* x < y for str: lexicographic by code point, a proper prefix first
StrLess(x, y) ==
    \/ /\ Len(x) < Len(y)
       /\ \A i \in 1..Len(x) : x[i] = y[i]
    \/ \E i \in 1..Len(x) :
          /\ i <= Len(y)
          /\ \A j \in 1..(i-1) : x[j] = y[j]
          /\ CodePoint(x[i]) < CodePoint(y[i])

RECURSIVE SortedStrings(_)
\* sorted(S) for a set of str
SortedStrings(S) ==
    IF S = {} THEN <<>>
    ELSE LET m == CHOOSE x \in S : \A y \in S \ {x} : StrLess(x, y)
         IN <<m>> \o SortedStrings(S \ {m})

Range(seq) == {seq[i] : i \in 1..Len(seq)}

Max(a, b) == IF a >= b THEN a ELSE b

Min(a, b) == IF a <= b THEN a ELSE b

\* text[start:end] with Python's 0-based, end-exclusive offsets already within bounds
Slice(text, start, end) == SubSeq(text, start + 1, end)

\* seq[:n]: the first n elements, all of them when n > len, all but the last -n when n < 0
SliceTo(seq, n) ==
    IF n >= 0 THEN SubSeq(seq, 1, Min(Len(seq), n))
    ELSE SubSeq(seq, 1, Max(0, Len(seq) + n))

-----------------------------------------------------------------------------
(* dict *)

EmptyDict == [x \in {} |-> <<>>]

\* d[k] = v
DictSet(d, k, v) == [x \in (DOMAIN d) \cup {k} |-> IF x = k THEN v ELSE d[x]]

\* d.get(k, default)
DictGet(d, k, default) == IF k \in DOMAIN d THEN d[k] ELSE default

-----------------------------------------------------------------------------
(* Skill registry: load_skills_registry and the module-level pattern table *)

\* the built-in vocabulary ["python", "sql"]
FallbackSkills == << <<"p","y","t","h","o","n">>, <<"s","q","l">> >>

RECURSIVE LoadAliases(_, _, _)
\* for a in item.get("aliases", []) or []: a_norm = (a or "").strip().lower(); if a_norm: aliases[a_norm] = name
LoadAliases(aliases, raw, name) ==
    IF raw = <<>> THEN aliases
    ELSE LET a_norm == LowerStr(Strip(Head(raw)))
         IN LoadAliases(IF a_norm # <<>> THEN DictSet(aliases, a_norm, name) ELSE aliases,
                        Tail(raw), name)

\* an element of "skills" that is a JSON object: item.get exists. An element that
\* is a JSON string is the record [str |-> ...], and item.get raises AttributeError
IsDict(item) == "str" \notin DOMAIN item

RECURSIVE LoadItems(_, _, _)
\* for item in skills: the loop that fills canon and aliases, up to its end or up
\* to the item on which it raises
LoadItems(items, canon, aliases) ==
    IF items = <<>> THEN [canon |-> canon, aliases |-> aliases, raised |-> FALSE]
    ELSE LET item == Head(items)
         IN IF ~IsDict(item)
            THEN [canon |-> canon, aliases |-> aliases, raised |-> TRUE]
            ELSE LET name == LowerStr(Strip(item.name))
                 IN IF name = <<>>
                    THEN LoadItems(Tail(items), canon, aliases)
                    ELSE LoadItems(Tail(items), Append(canon, name),
                                   LoadAliases(aliases, item.aliases, name))

\* load_skills_registry without its except clause acting as a whole: the lists
\* filled so far are assigned when the loop raises
LoadedRegistryPartial(source) ==
    IF ~source.readable
    THEN [canon |-> FallbackSkills, aliases |-> EmptyDict]
    ELSE LET r == LoadItems(source.skills, <<>>, EmptyDict)
         IN [canon |-> IF r.canon = <<>> THEN FallbackSkills ELSE r.canon,
             aliases |-> r.aliases]

\* what load_skills_registry assigns to CANONICAL_SKILLS and SKILL_ALIASES
LoadedRegistry(source) ==
    IF ~source.readable
    THEN [canon |-> FallbackSkills, aliases |-> EmptyDict]
    ELSE LET r == LoadItems(source.skills, <<>>, EmptyDict)
         IN IF r.raised
            THEN [canon |-> FallbackSkills, aliases |-> EmptyDict]
            ELSE IF r.canon = <<>>
                 THEN [canon |-> FallbackSkills, aliases |-> r.aliases]
                 ELSE [canon |-> r.canon, aliases |-> r.aliases]

\* re.compile(rf"(?<!\w){re.escape(term)}(?!\w)", re.IGNORECASE).search(text): the
\* 0-based start offsets at which the pattern matches
PatternMatches(term, text) ==
    {i \in 0..(Len(text) - Len(term)) :
        /\ Len(term) > 0
        /\ LowerStr(Slice(text, i, i + Len(term))) = LowerStr(term)
        /\ (i = 0 \/ ~IsWordChar(text[i]))
        /\ (i + Len(term) = Len(text) \/ ~IsWordChar(text[i + Len(term) + 1]))}

PatternSearch(term, text) == PatternMatches(term, text) # {}

\* the keys of _SKILL_PATTERNS after the two module-level loops
CompiledPatternKeys(canon, aliases) == Range(canon) \cup DOMAIN aliases

\* what a call of extract_skills_simple goes on to use after its guard `if not text`
\* (None and "" alike are the empty text)
ConsultedAlwaysBySimple(text) == {"_SKILL_PATTERNS"}

ConsultedBySimple(text) == IF text = <<>> THEN {} ELSE {"_SKILL_PATTERNS"}

\* extract_skills_simple(text)
extract_skills_simple(text) ==
    IF text = <<>> THEN <<>>
    ELSE LET found == {DictGet(SKILL_ALIASES, token, token) :
                          token \in {t \in SKILL_PATTERNS : PatternSearch(t, text)}}
         IN SortedStrings({canon \in found : canon \in Range(CANONICAL_SKILLS)})

-----------------------------------------------------------------------------
(* NLP: the tokenizer of the English pipeline (spacy.load("en_core_web_sm") or     *)
(* spacy.blank("en"): both tokenize alike) and the PhraseMatcher on attr LOWER.    *)
(* A token is <<s, e>>: the 1-based positions of its first and last character.     *)

\* characters the tokenizer splits off as a prefix and as a suffix of a chunk
AffixPunct == {"_"}

\* characters the tokenizer splits off between two letters
InfixHyphens == {"-"}

\* the maximal runs <<first, last>> of characters of `text` that are spaces
\* (which = TRUE) or are not (which = FALSE)
Runs(text, which) ==
    {r \in (1..Len(text)) \X (1..Len(text)) :
        /\ r[1] <= r[2]
        /\ \A i \in r[1]..r[2] : IsSpace(text[i]) = which
        /\ (r[1] = 1 \/ IsSpace(text[r[1] - 1]) # which)
        /\ (r[2] = Len(text) \/ IsSpace(text[r[2] + 1]) # which)}

\* a run of spaces: the first space after a token is that token's trailing
\* whitespace, the rest of the run (the whole run at the start of the text) is a token
SpaceTokens(text) ==
    {r \in Runs(text, TRUE) : r[1] = 1}
    \cup {<<r[1] + 1, r[2]>> : r \in {q \in Runs(text, TRUE) : q[1] > 1 /\ q[1] < q[2]}}

\* the tokens of one whitespace-delimited chunk text[s..e]: prefix punctuation,
\* suffix punctuation, and the rest split at its infixes
ChunkTokens(text, s, e) ==
    LET IsAffix(i) == text[i] \in AffixPunct
        npre  == Cardinality({i \in s..e : \A j \in s..i : IsAffix(j)})
        nsuf  == IF npre = e - s + 1 THEN 0
                 ELSE Cardinality({i \in s..e : \A j \in i..e : IsAffix(j)})
        ms    == s + npre
        me    == e - nsuf
        infix == {i \in (ms + 1)..(me - 1) :
                     /\ text[i] \in InfixHyphens
                     /\ IsAlpha(text[i - 1])
                     /\ IsAlpha(text[i + 1])}
        pieces == {r \in (ms..me) \X (ms..me) :
                     /\ r[1] <= r[2]
                     /\ \A i \in r[1]..r[2] : i \notin infix
                     /\ (r[1] = ms \/ (r[1] - 1) \in infix)
                     /\ (r[2] = me \/ (r[2] + 1) \in infix)}
    IN {<<i, i>> : i \in s..(ms - 1)}
       \cup {<<i, i>> : i \in (me + 1)..e}
       \cup {<<i, i>> : i \in infix}
       \cup pieces

RECURSIVE InOrder(_)
\* a set of tokens as the sequence the Doc holds: by start offset
InOrder(S) ==
    IF S = {} THEN <<>>
    ELSE LET m == CHOOSE x \in S : \A y \in S : x[1] <= y[1]
         IN <<m>> \o InOrder(S \ {m})

\* NLP(text) / NLP.make_doc(text): the tokens of the Doc
Tokenize(text) ==
    InOrder(SpaceTokens(text)
            \cup UNION {ChunkTokens(text, r[1], r[2]) : r \in Runs(text, FALSE)})

\* token.lower_ of each token
TokenLowers(text, toks) ==
    [i \in 1..Len(toks) |-> LowerStr(SubSeq(text, toks[i][1], toks[i][2]))]

\* NLP.make_doc(term) as the PhraseMatcher on attr="LOWER" stores it
PhrasePattern(term) == TokenLowers(term, Tokenize(term))

\* SKILL_MATCHER(doc): the matches <<start, end>> in token indices, end exclusive, as
\* doc[start:end] takes them
MatcherMatches(patterns, text, toks) ==
    LET lowers == TokenLowers(text, toks)
    IN {m \in (0..Len(toks)) \X (0..Len(toks)) :
          /\ m[1] < m[2]
          /\ SubSeq(lowers, m[1] + 1, m[2]) \in patterns}

\* span.start_char, span.end_char of doc[start:end]
SpanStartChar(toks, m) == toks[m[1] + 1][1] - 1

\* the end of the match in tokens taken for its end in characters
SpanEndTokenIndex(toks, m) == m[2]

SpanEndChar(toks, m) == toks[m[2]][2]

RECURSIVE MatchesInCallOrder(_)
\* the matches in an order that depends on what the process did before: by start
\* token on a first call, by descending start token after one
MatchesInCallOrder(S) ==
    IF S = {} THEN <<>>
    ELSE LET m == CHOOSE x \in S : \A y \in S :
                     IF call.fn = "none"
                     THEN x[1] < y[1] \/ (x[1] = y[1] /\ x[2] <= y[2])
                     ELSE x[1] > y[1] \/ (x[1] = y[1] /\ x[2] >= y[2])
         IN <<m>> \o MatchesInCallOrder(S \ {m})

RECURSIVE MatchesInOrder(_)
\* the matches in the order the matcher yields them: by start token, then by end token
MatchesInOrder(S) ==
    IF S = {} THEN <<>>
    ELSE LET m == CHOOSE x \in S : \A y \in S :
                     x[1] < y[1] \/ (x[1] = y[1] /\ x[2] <= y[2])
         IN <<m>> \o MatchesInOrder(S \ {m})

-----------------------------------------------------------------------------
(* Skill extraction with spans *)

\* the dict build_skill_matcher leaves in SKILL_CANON_BY_PHRASE
BuiltPhraseMap(canon, aliases) ==
    IF canon = <<>> THEN EmptyDict
    ELSE [p \in {LowerStr(c) : c \in Range(canon)} \cup {LowerStr(a) : a \in DOMAIN aliases} |->
            IF \E a \in DOMAIN aliases : LowerStr(a) = p
            THEN aliases[CHOOSE a \in DOMAIN aliases : LowerStr(a) = p]
            ELSE CHOOSE c \in Range(canon) : LowerStr(c) = p]

\* the phrases build_skill_matcher adds to SKILL_MATCHER under "SKILLS"
BuiltPhrases(canon, aliases, old) ==
    IF canon = <<>> THEN old
    ELSE {PhrasePattern(t) : t \in Range(canon) \cup DOMAIN aliases}

\* the dict appended to spans for one match of the matcher
SkillSpan(text, toks, m) ==
    LET start_char == SpanStartChar(toks, m)
        end_char   == SpanEndChar(toks, m)
        span_text  == Slice(text, toks[m[1] + 1][1] - 1, toks[m[2]][2])
        phrase     == LowerStr(span_text)
    IN [skill |-> DictGet(SKILL_CANON_BY_PHRASE, phrase, phrase),
        text  |-> span_text,
        start |-> start_char,
        end   |-> end_char]

\* extract_skills_with_spans with its two paths kept apart: the skills of the regex
\* scan, the spans of the phrase matcher, and no filter of the spans
extract_skills_unmerged(text) ==
    IF text = <<>> THEN [skills |-> <<>>, spans |-> <<>>]
    ELSE LET toks    == Tokenize(text)
             matches == MatchesInOrder(MatcherMatches(SKILL_MATCHER, text, toks))
             all     == [i \in 1..Len(matches) |-> SkillSpan(text, toks, matches[i])]
             IsCanon(sp) == sp.skill \in Range(CANONICAL_SKILLS)
         IN [skills |-> extract_skills_simple(text), spans |-> SelectSeq(all, IsCanon)]

\* extract_skills_with_spans without its regex scan: what the phrase matcher finds
extract_skills_matcher_only(text) ==
    IF text = <<>> THEN [skills |-> <<>>, spans |-> <<>>]
    ELSE LET toks    == Tokenize(text)
             matches == MatchesInOrder(MatcherMatches(SKILL_MATCHER, text, toks))
             all     == [i \in 1..Len(matches) |-> SkillSpan(text, toks, matches[i])]
             IsCanon(sp) == sp.skill \in Range(CANONICAL_SKILLS)
             spans   == SelectSeq(all, IsCanon)
         IN [skills |-> SortedStrings({spans[i].skill : i \in 1..Len(spans)}),
             spans |-> spans]

\* what a call of extract_skills_with_spans goes on to use after its guard
ConsultedByWithSpans(text) ==
    IF text = <<>> THEN {} ELSE {"NLP", "SKILL_MATCHER"} \cup ConsultedBySimple(text)

\* extract_skills_with_spans(text): (skills_sorted, spans)
extract_skills_with_spans(text) ==
    IF text = <<>> THEN [skills |-> <<>>, spans |-> <<>>]
    ELSE LET toks    == Tokenize(text)
             matches == MatchesInOrder(MatcherMatches(SKILL_MATCHER, text, toks))
             all     == [i \in 1..Len(matches) |-> SkillSpan(text, toks, matches[i])]
             IsCanon(sp) == sp.skill \in Range(CANONICAL_SKILLS)
             spans   == SelectSeq(all, IsCanon)
             found   == {spans[i].skill : i \in 1..Len(spans)}
                        \cup Range(extract_skills_simple(text))
             skills_sorted == SortedStrings(found)
             Kept(sp) == sp.skill \in Range(skills_sorted)
         IN [skills |-> skills_sorted, spans |-> SelectSeq(spans, Kept)]

-----------------------------------------------------------------------------
(* Inputs of the extraction model *)

\* the characters texts are drawn from: two letters, an upper-case letter, the
\* space, a word character that is punctuation to the tokenizer, and a hyphen
Alphabet == {"a", "b", "A", " ", "_", "-"}

Texts == UNION {[1..n -> Alphabet] : n \in 0..MaxTextLen}

\* contents of skills_registry.json: skill "ab" with alias "B" and skill "a" (names
\* to be trimmed and lowercased); an alias that is also a canonical name; a
\* two-word skill with an item whose name is blank; skill "aba" with alias "bab";
\* a skill followed by an element that is a string, not an object; items whose
\* names are all blank; a file that is missing or is not JSON
RegistrySources ==
    { [readable |-> TRUE,
       skills |-> << [name |-> <<" ", "A", "b">>, aliases |-> << <<"B">> >>],
                     [name |-> <<"a">>, aliases |-> <<>>] >>],
      [readable |-> TRUE,
       skills |-> << [name |-> <<"a", "b">>, aliases |-> << <<"b">> >>],
                     [name |-> <<"b">>, aliases |-> << <<"a">> >>] >>],
      [readable |-> TRUE,
       skills |-> << [name |-> <<"a", " ", "b">>, aliases |-> << <<"a", "b">>, <<" ">> >>],
                     [name |-> <<" ">>, aliases |-> << <<"b">> >>] >>],
      [readable |-> TRUE,
       skills |-> << [name |-> <<"a", "b", "a">>, aliases |-> << <<"b", "a", "b">> >>] >>],
      [readable |-> TRUE,
       skills |-> << [name |-> <<"a">>, aliases |-> << <<"b">> >>],
                     [str |-> <<"b">>] >>],
      [readable |-> TRUE,
       skills |-> << [name |-> <<" ">>, aliases |-> << <<"b">> >>],
                     [name |-> <<>>, aliases |-> <<>>] >>],
      [readable |-> FALSE, skills |-> <<>>] }

NoCall == [fn |-> "none", text |-> <<>>, skills |-> <<>>, spans |-> <<>>, consulted |-> {}]

NoDb == [job |-> "none", resumes |-> <<>>]

NoRequest == [k |-> 0]

NoResponse == [status |-> "none"]

NoCtx == [fn |-> "none"]

NoReload == [active |-> FALSE, old |-> [readable |-> FALSE, skills |-> <<>>], todo |-> <<>>]

NoRender == [fn |-> "none", text |-> <<>>, html |-> <<>>, slices |-> <<>>]

\* spacy.load("en_core_web_sm", disable=["ner", "textcat"]), or spacy.blank("en")
\* when loading it raises
Pipelines == {"en_core_web_sm", "blank"}

\* SentenceTransformer("all-MiniLM-L6-v2"), or None when loading it raises
MiniLM == "all-MiniLM-L6-v2"

Embedders == {MiniLM, "None"}

-----------------------------------------------------------------------------
(* The process: import of app.main, then extraction calls *)

\* module level, lines 221-222, 256, 283-285: empty registry, no pattern, empty matcher
InitExtract ==
    /\ pc = "import"
    /\ NLP = "en_core_web_sm"
    /\ EMBEDDER = MiniLM
    /\ reload = NoReload
    /\ render = NoRender
    /\ registry_source \in RegistrySources
    /\ CANONICAL_SKILLS = <<>>
    /\ SKILL_ALIASES = EmptyDict
    /\ SKILL_PATTERNS = {}
    /\ SKILL_CANON_BY_PHRASE = EmptyDict
    /\ SKILL_MATCHER = {}
    /\ call = NoCall
    /\ db = NoDb
    /\ request = NoRequest
    /\ response = NoResponse
    /\ ctx = NoCtx

\* load_skills_registry(), called at line 253
LoadSkillsRegistry ==
    /\ pc = "import"
    /\ CANONICAL_SKILLS' = LoadedRegistry(registry_source).canon
    /\ SKILL_ALIASES' = LoadedRegistry(registry_source).aliases
    /\ pc' = "loaded"
    /\ UNCHANGED <<NLP, EMBEDDER, reload, render, registry_source, SKILL_PATTERNS, SKILL_CANON_BY_PHRASE, SKILL_MATCHER,
                   call, db, request, response, ctx>>

\* the two loops of lines 257-262 that fill _SKILL_PATTERNS
CompileSkillPatterns ==
    /\ pc = "loaded"
    /\ SKILL_PATTERNS' = CompiledPatternKeys(CANONICAL_SKILLS, SKILL_ALIASES)
    /\ pc' = "compiled"
    /\ UNCHANGED <<NLP, EMBEDDER, reload, render, registry_source, CANONICAL_SKILLS, SKILL_ALIASES, SKILL_CANON_BY_PHRASE,
                   SKILL_MATCHER, call, db, request, response, ctx>>

\* build_skill_matcher(), called at line 308
BuildSkillMatcher ==
    /\ pc = "compiled"
    /\ SKILL_CANON_BY_PHRASE' = BuiltPhraseMap(CANONICAL_SKILLS, SKILL_ALIASES)
    /\ SKILL_MATCHER' = BuiltPhrases(CANONICAL_SKILLS, SKILL_ALIASES, SKILL_MATCHER)
    /\ pc' = "serving"
    /\ UNCHANGED <<NLP, EMBEDDER, reload, render, registry_source, CANONICAL_SKILLS, SKILL_ALIASES, SKILL_PATTERNS,
                   call, db, request, response, ctx>>

\* a caller runs extract_skills_simple(text)
ExtractSkillsSimple ==
    /\ pc = "serving"
    /\ \E text \in Texts :
          call' = [fn |-> "extract_skills_simple", text |-> text,
                   skills |-> extract_skills_simple(text), spans |-> <<>>,
                   consulted |-> ConsultedBySimple(text)]
    /\ pc' = "returned"
    /\ UNCHANGED <<NLP, EMBEDDER, reload, render, registry_source, CANONICAL_SKILLS, SKILL_ALIASES, SKILL_PATTERNS,
                   SKILL_CANON_BY_PHRASE, SKILL_MATCHER, db, request, response, ctx>>

\* a caller runs extract_skills_with_spans(text)
ExtractSkillsWithSpans ==
    /\ pc = "serving"
    /\ \E text \in Texts :
          call' = [fn |-> "extract_skills_with_spans", text |-> text,
                   skills |-> extract_skills_with_spans(text).skills,
                   spans |-> extract_skills_with_spans(text).spans,
                   consulted |-> ConsultedByWithSpans(text)]
    /\ pc' = "returned"
    /\ UNCHANGED <<NLP, EMBEDDER, reload, render, registry_source, CANONICAL_SKILLS, SKILL_ALIASES, SKILL_PATTERNS,
                   SKILL_CANON_BY_PHRASE, SKILL_MATCHER, db, request, response, ctx>>

\* the caller runs extract_skills_with_spans a second time on the text of the call
\* that has just returned; the registry has not been reloaded in between
RepeatExtractSkillsWithSpans ==
    /\ pc = "returned"
    /\ call.fn = "extract_skills_with_spans"
    /\ "first" \notin DOMAIN call
    /\ call' = [fn |-> "extract_skills_with_spans", text |-> call.text,
                skills |-> extract_skills_with_spans(call.text).skills,
                spans |-> extract_skills_with_spans(call.text).spans,
                consulted |-> ConsultedByWithSpans(call.text),
                first |-> [skills |-> call.skills, spans |-> call.spans]]
    /\ pc' = "returned"
    /\ UNCHANGED <<NLP, EMBEDDER, reload, render, registry_source, CANONICAL_SKILLS, SKILL_ALIASES, SKILL_PATTERNS,
                   SKILL_CANON_BY_PHRASE, SKILL_MATCHER, db, request, response, ctx>>

\* the caller has its result; the process serves the next call
ReturnToCaller ==
    /\ pc = "returned"
    /\ call' = NoCall
    /\ ctx' = NoCtx
    /\ pc' = "serving"
    /\ UNCHANGED <<NLP, EMBEDDER, reload, render, registry_source, CANONICAL_SKILLS, SKILL_ALIASES, SKILL_PATTERNS,
                   SKILL_CANON_BY_PHRASE, SKILL_MATCHER, db, request, response>>

NextExtract ==
    \/ LoadSkillsRegistry
    \/ CompileSkillPatterns
    \/ BuildSkillMatcher
    \/ ExtractSkillsSimple
    \/ ExtractSkillsWithSpans
    \/ RepeatExtractSkillsWithSpans
    \/ ReturnToCaller

SpecExtract == InitExtract /\ [][NextExtract]_vars

-----------------------------------------------------------------------------
(* Context terms.  What NLP(text) makes of a text (noun chunks, part of speech,  *)
(* lemma, stop words) is the pipeline's: a Doc is an input, given with its text. *)

\* the default of max_terms
DefaultMaxTerms == 20

\* str.isnumeric()
IsNumeric(s) == Len(s) > 0 /\ \A i \in 1..Len(s) : IsDigit(s[i])

\* str.isalpha()
IsAlphaStr(s) == Len(s) > 0 /\ \A i \in 1..Len(s) : IsAlpha(s[i])

\* terms_from_doc(doc)
terms_from_doc(doc) ==
    {LowerStr(Strip(doc.noun_chunks[i])) : i \in
        {n \in 1..Len(doc.noun_chunks) :
            LET t == LowerStr(Strip(doc.noun_chunks[n]))
            IN 3 <= Len(t) /\ Len(t) <= 60 /\ ~IsNumeric(t)}}
    \cup
    {LowerStr(doc.tokens[i].lemma) : i \in
        {n \in 1..Len(doc.tokens) :
            LET tok == doc.tokens[n]
            IN /\ ~(tok.is_stop \/ tok.is_punct \/ ~IsAlphaStr(tok.text))
               /\ tok.pos \in {"NOUN", "PROPN", "ADJ"}
               /\ Len(tok.text) >= 3}}

\* x goes before y under key=lambda x: (len(x), x)
ShorterThenAlpha(x, y) == Len(x) < Len(y) \/ (Len(x) = Len(y) /\ StrLess(x, y))

\* x goes before y under key=lambda x: (-len(x), x)
LongerThenAlpha(x, y) == Len(x) > Len(y) \/ (Len(x) = Len(y) /\ StrLess(x, y))

RECURSIVE SortedByLength(_)
\* filtered.sort(key=lambda x: (-len(x), x)) for a list of distinct terms
SortedByLength(S) ==
    IF S = {} THEN <<>>
    ELSE LET m == CHOOSE x \in S : \A y \in S \ {x} : LongerThenAlpha(x, y)
         IN <<m>> \o SortedByLength(S \ {m})

\* extract_context_terms(job_text, resume_text, exclude_terms, max_terms), with
\* doc_j = NLP(job_text) and doc_r = NLP(resume_text)
extract_context_terms(doc_j, doc_r, exclude_terms, max_terms) ==
    IF doc_j.text = <<>> \/ doc_r.text = <<>> THEN <<>>
    ELSE LET overlap  == terms_from_doc(doc_j) \cap terms_from_doc(doc_r)
             exclude  == Range(exclude_terms) \cup Range(CANONICAL_SKILLS)
             filtered == {t \in overlap : t \notin exclude}
         IN SliceTo(SortedByLength(filtered), max_terms)

Tok(text, lemma, pos, is_stop) ==
    [text |-> text, lemma |-> lemma, pos |-> pos, is_stop |-> is_stop, is_punct |-> FALSE]

\* parsed texts: "Aba bab" (a proper noun and a noun, one noun chunk); "bab abs 12"
\* (the plural "abs" has the lemma "ab", "12" is a chunk of digits); "a bbb" (a stop
\* word and an adjective); the empty text
ContextDocs ==
    { [text |-> <<"A","b","a"," ","b","a","b">>,
       noun_chunks |-> << <<"A","b","a"," ","b","a","b">> >>,
       tokens |-> << Tok(<<"A","b","a">>, <<"A","b","a">>, "PROPN", FALSE),
                     Tok(<<"b","a","b">>, <<"b","a","b">>, "NOUN", FALSE) >>],
      [text |-> <<"b","a","b"," ","a","b","s"," ","1","2">>,
       noun_chunks |-> << <<"b","a","b"," ">>, <<"a","b","s">>, <<"1","2">> >>,
       tokens |-> << Tok(<<"b","a","b">>, <<"b","a","b">>, "NOUN", FALSE),
                     Tok(<<"a","b","s">>, <<"a","b">>, "NOUN", FALSE),
                     Tok(<<"1","2">>, <<"1","2">>, "NUM", FALSE) >>],
      [text |-> <<"a"," ","b","b","b">>,
       noun_chunks |-> << <<"a"," ","b","b","b">> >>,
       tokens |-> << Tok(<<"a">>, <<"a">>, "DET", TRUE),
                     Tok(<<"b","b","b">>, <<"b","b","b">>, "ADJ", FALSE) >>],
      [text |-> <<>>, noun_chunks |-> <<>>, tokens |-> <<>>] }

\* the Doc spacy.blank("en") makes of the same text: tokens without part of speech
\* and without lemma, no dependency parse
BlankDoc(doc) ==
    [text |-> doc.text, noun_chunks |-> <<>>,
     tokens |-> [i \in 1..Len(doc.tokens) |->
                    Tok(doc.tokens[i].text, <<>>, "", doc.tokens[i].is_stop)]]

\* the Docs the pipeline `nlp` makes
DocsOf(nlp) ==
    IF nlp = "blank" THEN {BlankDoc(d) : d \in ContextDocs} ELSE ContextDocs

\* `for nc in getattr(doc, "noun_chunks", [])`: Doc has the attribute, a generator,
\* and iterating it raises ValueError (E029) on a Doc without dependency parse;
\* nothing in extract_context_terms catches it
ContextTermsRaises(nlp, doc_j, doc_r) ==
    doc_j.text # <<>> /\ doc_r.text # <<>> /\ nlp = "blank"

\* exclude_terms: None, the matched skills of a candidate, a term of the texts
ExcludeLists == {<<>>, << <<"a","b","a">> >>, << <<"a","b","a"," ","b","a","b">>, <<"b","b","b">> >>}

MaxTermsValues == {0, 1, 2, DefaultMaxTerms}

\* the process after import: the registry is loaded, the patterns and the matcher built
InitContext ==
    /\ pc = "serving"
    /\ NLP \in Pipelines
    /\ EMBEDDER = MiniLM
    /\ reload = NoReload
    /\ render = NoRender
    /\ registry_source \in RegistrySources
    /\ CANONICAL_SKILLS = LoadedRegistry(registry_source).canon
    /\ SKILL_ALIASES = LoadedRegistry(registry_source).aliases
    /\ SKILL_PATTERNS = CompiledPatternKeys(CANONICAL_SKILLS, SKILL_ALIASES)
    /\ SKILL_CANON_BY_PHRASE = BuiltPhraseMap(CANONICAL_SKILLS, SKILL_ALIASES)
    /\ SKILL_MATCHER = BuiltPhrases(CANONICAL_SKILLS, SKILL_ALIASES, {})
    /\ call = NoCall
    /\ db = NoDb
    /\ request = NoRequest
    /\ response = NoResponse
    /\ ctx = NoCtx

\* a caller runs extract_context_terms(job_text, resume_text, exclude_terms, max_terms)
ExtractContextTerms ==
    /\ pc = "serving"
    /\ \E doc_j \in DocsOf(NLP), doc_r \in DocsOf(NLP),
          exclude_terms \in ExcludeLists, max_terms \in MaxTermsValues :
          ctx' = [fn |-> "extract_context_terms", doc_j |-> doc_j, doc_r |-> doc_r,
                  exclude_terms |-> exclude_terms, max_terms |-> max_terms,
                  raised |-> ContextTermsRaises(NLP, doc_j, doc_r),
                  terms |-> IF ContextTermsRaises(NLP, doc_j, doc_r) THEN <<>>
                            ELSE extract_context_terms(doc_j, doc_r, exclude_terms,
                                                       max_terms)]
    /\ pc' = "returned"
    /\ UNCHANGED <<NLP, EMBEDDER, reload, render, registry_source, CANONICAL_SKILLS, SKILL_ALIASES, SKILL_PATTERNS,
                   SKILL_CANON_BY_PHRASE, SKILL_MATCHER, call, db, request, response>>

NextContext ==
    \/ ExtractContextTerms
    \/ ReturnToCaller

SpecContext == InitContext /\ [][NextContext]_vars

-----------------------------------------------------------------------------
(* Spans of terms: find_spans_for_terms *)

RECURSIVE FindAllFrom(_, _, _)
\* every start at or after pos at which the pattern matches, overlapping ones included
FindAllFrom(term, text, pos) ==
    LET starts == {i \in PatternMatches(term, text) : i >= pos}
    IN IF starts = {} THEN <<>>
       ELSE LET i == CHOOSE x \in starts : \A y \in starts : x <= y
            IN <<i>> \o FindAllFrom(term, text, i + 1)

RECURSIVE FindIter(_, _, _)
\* pat.finditer(text) from pos on, for a term that is not empty: the leftmost match,
\* then the leftmost match that starts at or after its end, and so on
FindIter(term, text, pos) ==
    LET starts == {i \in PatternMatches(term, text) : i >= pos}
    IN IF starts = {} THEN <<>>
       ELSE LET i == CHOOSE x \in starts : \A y \in starts : x <= y
            IN <<i>> \o FindIter(term, text, i + Len(term))

\* the spans appended for one term
TermSpans(text, t) ==
    [n \in 1..Len(FindIter(t, text, 0)) |->
        [text  |-> Slice(text, FindIter(t, text, 0)[n], FindIter(t, text, 0)[n] + Len(t)),
         start |-> FindIter(t, text, 0)[n],
         end   |-> FindIter(t, text, 0)[n] + Len(t)]]

RECURSIVE SpansOfTerms(_, _)
\* for t in terms: the spans of t, term after term
SpansOfTerms(text, terms) ==
    IF terms = <<>> THEN <<>>
    ELSE TermSpans(text, Head(terms)) \o SpansOfTerms(text, Tail(terms))

\* find_spans_for_terms(text, terms); re.escape and re.compile raise for no str
find_spans_for_terms(text, terms) ==
    IF text = <<>> \/ terms = <<>> THEN <<>> ELSE SpansOfTerms(text, terms)

\* texts in which a term can occur, occur twice, and overlap itself
SpanAlphabet == {"a", "A", " ", "_"}

SpanTexts == UNION {[1..n -> SpanAlphabet] : n \in 0..(MaxTextLen + 1)}

\* term lists as match passes them: distinct, non-empty, lower-case terms
TermLists ==
    { <<>>,
      << <<"a">> >>,
      << <<"a", " ", "a">> >>,
      << <<"a", "a">>, <<"a">> >>,
      << <<"b">>, <<"a", " ", "a">>, <<"a", "_">> >> }

InitSpans ==
    /\ pc = "serving"
    /\ NLP = "en_core_web_sm"
    /\ EMBEDDER = MiniLM
    /\ reload = NoReload
    /\ render = NoRender
    /\ registry_source \in {r \in RegistrySources : ~r.readable}
    /\ CANONICAL_SKILLS = LoadedRegistry(registry_source).canon
    /\ SKILL_ALIASES = LoadedRegistry(registry_source).aliases
    /\ SKILL_PATTERNS = CompiledPatternKeys(CANONICAL_SKILLS, SKILL_ALIASES)
    /\ SKILL_CANON_BY_PHRASE = BuiltPhraseMap(CANONICAL_SKILLS, SKILL_ALIASES)
    /\ SKILL_MATCHER = BuiltPhrases(CANONICAL_SKILLS, SKILL_ALIASES, {})
    /\ call = NoCall
    /\ db = NoDb
    /\ request = NoRequest
    /\ response = NoResponse
    /\ ctx = NoCtx

\* a caller runs find_spans_for_terms(text, terms)
FindSpansForTerms ==
    /\ pc = "serving"
    /\ \E text \in SpanTexts, terms \in TermLists :
          call' = [fn |-> "find_spans_for_terms", text |-> text, terms |-> terms,
                   skills |-> <<>>, spans |-> find_spans_for_terms(text, terms),
                   consulted |-> {}]
    /\ pc' = "returned"
    /\ UNCHANGED <<NLP, EMBEDDER, reload, render, registry_source, CANONICAL_SKILLS, SKILL_ALIASES,
                   SKILL_PATTERNS, SKILL_CANON_BY_PHRASE, SKILL_MATCHER, db, request,
                   response, ctx>>

NextSpans ==
    \/ FindSpansForTerms
    \/ ReturnToCaller

SpecSpans == InitSpans /\ [][NextSpans]_vars

-----------------------------------------------------------------------------
(* Reload of the registry while requests are served: load_skills_registry() and  *)
(* build_skill_matcher() called again after skills_registry.json has changed.    *)
(* The reload writes the module's globals one statement at a time; a request     *)
(* running in another thread reads them in between.                              *)

\* the five globals as the import of app.main leaves them for a registry source
CompleteRegistry(source) ==
    LET r == LoadedRegistry(source)
    IN [canon      |-> r.canon,
        aliases    |-> r.aliases,
        patterns   |-> CompiledPatternKeys(r.canon, r.aliases),
        phrase_map |-> BuiltPhraseMap(r.canon, r.aliases),
        matcher    |-> BuiltPhrases(r.canon, r.aliases, {})]

\* the globals a request reads
RegistrySeen ==
    [canon      |-> CANONICAL_SKILLS,
     aliases    |-> SKILL_ALIASES,
     patterns   |-> SKILL_PATTERNS,
     phrase_map |-> SKILL_CANON_BY_PHRASE,
     matcher    |-> SKILL_MATCHER]

\* the writes of the two loops of build_skill_matcher, in their order: one entry
\* per canonical name, then one per alias
PhraseWrites(canon, aliases) ==
    [i \in 1..Len(canon) |-> [phrase |-> LowerStr(canon[i]), canon |-> canon[i]]]
    \o [i \in 1..Cardinality(DOMAIN aliases) |->
           [phrase |-> LowerStr(SortedStrings(DOMAIN aliases)[i]),
            canon  |-> aliases[SortedStrings(DOMAIN aliases)[i]]]]

\* texts of the requests served during a reload
ReloadTexts == {t \in Texts : Len(t) <= 2}

InitReload ==
    /\ pc = "serving"
    /\ NLP = "en_core_web_sm"
    /\ EMBEDDER = MiniLM
    /\ reload = NoReload
    /\ render = NoRender
    /\ registry_source \in RegistrySources
    /\ CANONICAL_SKILLS = CompleteRegistry(registry_source).canon
    /\ SKILL_ALIASES = CompleteRegistry(registry_source).aliases
    /\ SKILL_PATTERNS = CompleteRegistry(registry_source).patterns
    /\ SKILL_CANON_BY_PHRASE = CompleteRegistry(registry_source).phrase_map
    /\ SKILL_MATCHER = CompleteRegistry(registry_source).matcher
    /\ call = NoCall
    /\ db = NoDb
    /\ request = NoRequest
    /\ response = NoResponse
    /\ ctx = NoCtx

\* skills_registry.json is replaced and load_skills_registry() is called: lines
\* 227-244 read the file and fill the locals canon and aliases
ReloadBegin ==
    /\ pc = "serving"
    /\ ~reload.active
    /\ \E source \in RegistrySources \ {registry_source} : registry_source' = source
    /\ reload' = [active |-> TRUE, old |-> registry_source, todo |-> <<>>]
    /\ pc' = "line_245"
    /\ UNCHANGED <<NLP, EMBEDDER, render, CANONICAL_SKILLS, SKILL_ALIASES, SKILL_PATTERNS,
                   SKILL_CANON_BY_PHRASE, SKILL_MATCHER, call, db, request, response, ctx>>

\* CANONICAL_SKILLS = canon (line 245, or line 249 after an exception)
ReloadAssignCanonical ==
    /\ pc = "line_245"
    /\ CANONICAL_SKILLS' = LoadedRegistry(registry_source).canon
    /\ pc' = "line_246"
    /\ UNCHANGED <<NLP, EMBEDDER, reload, render, registry_source, SKILL_ALIASES, SKILL_PATTERNS,
                   SKILL_CANON_BY_PHRASE, SKILL_MATCHER, call, db, request, response, ctx>>

\* SKILL_ALIASES = aliases (line 246, or line 250); build_skill_matcher() is called next
ReloadAssignAliases ==
    /\ pc = "line_246"
    /\ SKILL_ALIASES' = LoadedRegistry(registry_source).aliases
    /\ pc' = "line_289"
    /\ UNCHANGED <<NLP, EMBEDDER, reload, render, registry_source, CANONICAL_SKILLS, SKILL_PATTERNS,
                   SKILL_CANON_BY_PHRASE, SKILL_MATCHER, call, db, request, response, ctx>>

\* SKILL_CANON_BY_PHRASE.clear() (line 289) and the return of line 291
MatcherClear ==
    /\ pc = "line_289"
    /\ SKILL_CANON_BY_PHRASE' = EmptyDict
    /\ IF CANONICAL_SKILLS = <<>>
       THEN /\ pc' = "reloaded"
            /\ UNCHANGED reload
       ELSE /\ pc' = "line_292"
            /\ reload' = [reload EXCEPT !.todo = PhraseWrites(CANONICAL_SKILLS, SKILL_ALIASES)]
    /\ UNCHANGED <<NLP, EMBEDDER, render, registry_source, CANONICAL_SKILLS, SKILL_ALIASES,
                   SKILL_PATTERNS, SKILL_MATCHER, call, db, request, response, ctx>>

\* one pass of a loop of lines 292-299: SKILL_CANON_BY_PHRASE[phrase] = canon
MatcherFill ==
    /\ pc = "line_292"
    /\ reload.todo # <<>>
    /\ SKILL_CANON_BY_PHRASE' = DictSet(SKILL_CANON_BY_PHRASE, Head(reload.todo).phrase,
                                        Head(reload.todo).canon)
    /\ reload' = [reload EXCEPT !.todo = Tail(reload.todo)]
    /\ UNCHANGED <<pc, NLP, EMBEDDER, render, registry_source, CANONICAL_SKILLS, SKILL_ALIASES,
                   SKILL_PATTERNS, SKILL_MATCHER, call, db, request, response, ctx>>

\* SKILL_MATCHER.remove("SKILLS"); SKILL_MATCHER.add("SKILLS", phrases) (lines
\* 300-306). _SKILL_PATTERNS is compiled at import only: no reload rewrites it
MatcherSwap ==
    /\ pc = "line_292"
    /\ reload.todo = <<>>
    /\ SKILL_MATCHER' = BuiltPhrases(CANONICAL_SKILLS, SKILL_ALIASES, SKILL_MATCHER)
    /\ pc' = "reloaded"
    /\ UNCHANGED <<NLP, EMBEDDER, reload, render, registry_source, CANONICAL_SKILLS, SKILL_ALIASES,
                   SKILL_PATTERNS, SKILL_CANON_BY_PHRASE, call, db, request, response, ctx>>

\* a request thread runs extract_skills_with_spans(text) on the globals as they are
ConcurrentExtract ==
    /\ call.fn = "none"
    /\ \E text \in ReloadTexts :
          call' = [fn |-> "extract_skills_with_spans", text |-> text,
                   skills |-> extract_skills_with_spans(text).skills,
                   spans |-> extract_skills_with_spans(text).spans,
                   consulted |-> ConsultedByWithSpans(text),
                   seen |-> RegistrySeen]
    /\ UNCHANGED <<pc, NLP, EMBEDDER, reload, render, registry_source, CANONICAL_SKILLS, SKILL_ALIASES,
                   SKILL_PATTERNS, SKILL_CANON_BY_PHRASE, SKILL_MATCHER, db, request,
                   response, ctx>>

\* the request thread has answered
ConcurrentReturn ==
    /\ call.fn # "none"
    /\ call' = NoCall
    /\ UNCHANGED <<pc, NLP, EMBEDDER, reload, render, registry_source, CANONICAL_SKILLS, SKILL_ALIASES,
                   SKILL_PATTERNS, SKILL_CANON_BY_PHRASE, SKILL_MATCHER, db, request,
                   response, ctx>>

NextReload ==
    \/ ReloadBegin
    \/ ReloadAssignCanonical
    \/ ReloadAssignAliases
    \/ MatcherClear
    \/ MatcherFill
    \/ MatcherSwap
    \/ ConcurrentExtract
    \/ ConcurrentReturn

SpecReload == InitReload /\ [][NextReload]_vars

-----------------------------------------------------------------------------
(* Rendering of spans in the dashboard (src/streamlit_app.py).  A rendering      *)
(* returns its html and, beside it, the offsets <<a, b>> of every slice           *)
(* text[a:b] it took.                                                            *)

\* text[a:b] for any integers a, b: a negative offset counts from the end, an
\* offset out of range is cut to the text
PyOffset(n, len) == IF n < 0 THEN Max(0, n + len) ELSE Min(n, len)

PySlice(text, a, b) == SubSeq(text, PyOffset(a, Len(text)) + 1, PyOffset(b, Len(text)))

\* html.escape of one character
EscapeChar(c) ==
    IF c = "<" THEN <<"&","l","t",";">>
    ELSE IF c = ">" THEN <<"&","g","t",";">>
    ELSE IF c = "&" THEN <<"&","a","m","p",";">>
    ELSE IF c = "\"" THEN <<"&","q","u","o","t",";">>
    ELSE IF c = "'" THEN <<"&","#","x","2","7",";">>
    ELSE <<c>>

RECURSIVE escape(_)
\* html.escape(text)
escape(text) == IF text = <<>> THEN <<>> ELSE EscapeChar(Head(text)) \o escape(Tail(text))

MarkOpen == <<"<","m","a","r","k",">">>

MarkClose == <<"<","/","m","a","r","k",">">>

\* (start, end) of x is not after that of y
SpanLeq(x, y) == x.start < y.start \/ (x.start = y.start /\ x.end <= y.end)

RECURSIVE SortedSpans(_)
\* sorted(spans, key=lambda s: (int(s.get("start", 0)), int(s.get("end", 0))))
SortedSpans(spans) ==
    IF spans = <<>> THEN <<>>
    ELSE LET i == CHOOSE k \in 1..Len(spans) :
                     /\ \A j \in 1..Len(spans) : SpanLeq(spans[k], spans[j])
                     /\ \A j \in 1..(k - 1) : ~SpanLeq(spans[j], spans[k])
         IN <<spans[i]>> \o SortedSpans(SubSeq(spans, 1, i - 1) \o SubSeq(spans, i + 1, Len(spans)))

RECURSIVE MergeSpans(_, _)
\* the loop that fills `merged`
MergeSpans(spans_sorted, merged) ==
    IF spans_sorted = <<>> THEN merged
    ELSE LET sp   == Head(spans_sorted)
             last == merged[Len(merged)]
         IN IF merged = <<>> \/ sp.start > last.end
            THEN MergeSpans(Tail(spans_sorted), Append(merged, [start |-> sp.start, end |-> sp.end]))
            ELSE MergeSpans(Tail(spans_sorted),
                            [merged EXCEPT ![Len(merged)] =
                                [start |-> last.start, end |-> Max(last.end, sp.end)]])

RECURSIVE BuildHtml(_, _, _, _, _)
\* the loop over `merged` and the tail after it: out_parts joined, and the slices
BuildHtml(text, merged, prev, html, slices) ==
    IF merged = <<>>
    THEN IF prev < Len(text)
         THEN [html |-> html \o escape(PySlice(text, prev, Len(text))),
               slices |-> Append(slices, <<prev, Len(text)>>)]
         ELSE [html |-> html, slices |-> slices]
    ELSE LET s == Max(0, Min(Head(merged).start, Len(text)))
             e == Max(0, Min(Head(merged).end, Len(text)))
             gap == IF s > prev THEN escape(PySlice(text, prev, s)) ELSE <<>>
             gap_slices == IF s > prev THEN <<<<prev, s>>>> ELSE <<>>
         IN BuildHtml(text, Tail(merged), e,
                      html \o gap \o MarkOpen \o escape(PySlice(text, s, e)) \o MarkClose,
                      slices \o gap_slices \o <<<<s, e>>>>)

\* render_highlight_full(text, spans)
render_highlight_full(text, spans) ==
    IF text = <<>> \/ spans = <<>>
    THEN [html |-> escape(text), slices |-> <<>>]
    ELSE BuildHtml(text, MergeSpans(SortedSpans(spans), <<>>), 0, <<>>, <<>>)

\* make_highlight_snippet(text, start, end, pre, post); "..." is the one-character
\* ellipsis
make_highlight_snippet(text, start, end, pre, post) ==
    LET s == Max(0, start - pre)
        e == Min(Len(text), end + post)
        prefix == IF s > 0 THEN <<"...">> ELSE <<>>
        suffix == IF e < Len(text) THEN <<"...">> ELSE <<>>
    IN [html |-> prefix \o escape(PySlice(text, s, start))
                   \o MarkOpen \o escape(PySlice(text, start, end)) \o MarkClose
                   \o escape(PySlice(text, end, e)) \o suffix,
        slices |-> << <<s, start>>, <<start, end>>, <<end, e>> >>]

\* texts shown in the dashboard: a letter, a space, a character that html.escape rewrites
RenderAlphabet == {"a", "<"}

RenderTexts == UNION {[1..n -> RenderAlphabet] : n \in 0..MaxTextLen}

\* offsets as an external source may send them: negative, inside, beyond any text
Offsets == {-1, 0, 2, 9}

OffsetSpans == [start : Offsets, end : Offsets]

SpanLists == {<<>>} \cup {<<x>> : x \in OffsetSpans} \cup {<<x, y>> : x \in OffsetSpans, y \in OffsetSpans}

\* pre and post: the default 60 and a short context
Contexts == {1, 60}

\* the dashboard process: it does not import app.main
InitRender ==
    /\ pc = "ui"
    /\ NLP = "en_core_web_sm"
    /\ EMBEDDER = MiniLM
    /\ reload = NoReload
    /\ render = NoRender
    /\ registry_source \in {r \in RegistrySources : ~r.readable}
    /\ CANONICAL_SKILLS = <<>>
    /\ SKILL_ALIASES = EmptyDict
    /\ SKILL_PATTERNS = {}
    /\ SKILL_CANON_BY_PHRASE = EmptyDict
    /\ SKILL_MATCHER = {}
    /\ call = NoCall
    /\ db = NoDb
    /\ request = NoRequest
    /\ response = NoResponse
    /\ ctx = NoCtx

\* the dashboard renders a text with its spans
RenderHighlightFull ==
    /\ pc = "ui"
    /\ \E text \in RenderTexts, spans \in SpanLists :
          render' = [fn |-> "render_highlight_full", text |-> text, spans |-> spans,
                     html |-> render_highlight_full(text, spans).html,
                     slices |-> render_highlight_full(text, spans).slices]
    /\ pc' = "rendered"
    /\ UNCHANGED <<NLP, EMBEDDER, reload, registry_source, CANONICAL_SKILLS, SKILL_ALIASES,
                   SKILL_PATTERNS, SKILL_CANON_BY_PHRASE, SKILL_MATCHER, call, db,
                   request, response, ctx>>

\* the dashboard renders the snippet around one span
MakeHighlightSnippet ==
    /\ pc = "ui"
    /\ \E text \in RenderTexts, sp \in OffsetSpans, pre \in Contexts, post \in Contexts :
          render' = [fn |-> "make_highlight_snippet", text |-> text, spans |-> <<sp>>,
                     html |-> make_highlight_snippet(text, sp.start, sp.end, pre, post).html,
                     slices |-> make_highlight_snippet(text, sp.start, sp.end, pre, post).slices]
    /\ pc' = "rendered"
    /\ UNCHANGED <<NLP, EMBEDDER, reload, registry_source, CANONICAL_SKILLS, SKILL_ALIASES,
                   SKILL_PATTERNS, SKILL_CANON_BY_PHRASE, SKILL_MATCHER, call, db,
                   request, response, ctx>>

\* the html is on the page; the dashboard renders the next
RenderDone ==
    /\ pc = "rendered"
    /\ render' = NoRender
    /\ pc' = "ui"
    /\ UNCHANGED <<NLP, EMBEDDER, reload, registry_source, CANONICAL_SKILLS, SKILL_ALIASES,
                   SKILL_PATTERNS, SKILL_CANON_BY_PHRASE, SKILL_MATCHER, call, db,
                   request, response, ctx>>

NextRender ==
    \/ RenderHighlightFull
    \/ MakeHighlightSnippet
    \/ RenderDone

SpecRender == InitRender /\ [][NextRender]_vars

-----------------------------------------------------------------------------
(* Static assets: GET /static/js/{filename:path} *)

\* media_type="application/javascript"
PlainTextMediaType == [type |-> "text", subtype |-> "plain"]

JavascriptMediaType == [type |-> "application", subtype |-> "javascript"]

\* the Content-Type header Response makes of media_type: a charset is added to
\* text/* types only
ContentTypeHeader(media_type) ==
    [type |-> media_type.type, subtype |-> media_type.subtype,
     charset |-> IF media_type.type = "text" THEN "utf-8" ELSE "none"]

\* serve_javascript(filename): the generated module names the file; the handler
\* has no branch that raises
serve_javascript(filename) ==
    [status |-> 200,
     content_type |-> ContentTypeHeader(JavascriptMediaType),
     module_for |-> filename,
     cache_control |-> "no-cache, no-store, must-revalidate"]

\* the characters of a requested path: a letter, a dot, a slash
PathAlphabet == {"a", ".", "/"}

\* {filename:path} matches any rest of the path, the empty one included
Filenames == UNION {[1..n -> PathAlphabet] : n \in 0..MaxTextLen}

InitStatic ==
    /\ pc = "request"
    /\ NLP = "en_core_web_sm"
    /\ EMBEDDER = MiniLM
    /\ reload = NoReload
    /\ render = NoRender
    /\ registry_source \in {r \in RegistrySources : ~r.readable}
    /\ CANONICAL_SKILLS = LoadedRegistry(registry_source).canon
    /\ SKILL_ALIASES = LoadedRegistry(registry_source).aliases
    /\ SKILL_PATTERNS = CompiledPatternKeys(CANONICAL_SKILLS, SKILL_ALIASES)
    /\ SKILL_CANON_BY_PHRASE = BuiltPhraseMap(CANONICAL_SKILLS, SKILL_ALIASES)
    /\ SKILL_MATCHER = BuiltPhrases(CANONICAL_SKILLS, SKILL_ALIASES, {})
    /\ call = NoCall
    /\ db = NoDb
    /\ request = NoRequest
    /\ response = NoResponse
    /\ ctx = NoCtx

\* GET /static/js/{filename}
ServeJavascript ==
    /\ pc = "request"
    /\ \E filename \in Filenames :
          /\ request' = [k |-> 0, filename |-> filename]
          /\ response' = serve_javascript(filename)
    /\ pc' = "responded"
    /\ UNCHANGED <<NLP, EMBEDDER, reload, render, registry_source, CANONICAL_SKILLS, SKILL_ALIASES,
                   SKILL_PATTERNS, SKILL_CANON_BY_PHRASE, SKILL_MATCHER, call, db, ctx>>

NextStatic == ServeJavascript

SpecStatic == InitStatic /\ [][NextStatic]_vars

-----------------------------------------------------------------------------
(* Claims about skill extraction, checked under SpecExtract *)

\* `term` occurs in `text` at 0-based offset i, compared case-insensitively, with no
\* word character right before it and none right after it
OccursDelimitedAt(term, text, i) ==
    /\ i >= 0
    /\ i + Len(term) <= Len(text)
    /\ \A j \in 1..Len(term) : LowerChar(text[i + j]) = LowerChar(term[j])
    /\ (i > 0 => ~IsWordChar(text[i]))
    /\ (i + Len(term) < Len(text) => ~IsWordChar(text[i + Len(term) + 1]))

OccursDelimited(term, text) == \E i \in 0..Len(text) : OccursDelimitedAt(term, text, i)

RegistryTerms == Range(CANONICAL_SKILLS) \cup DOMAIN SKILL_ALIASES

\* the registry terms that stand for `skill`: its name and the aliases mapped to it
TermsOf(skill) ==
    {t \in RegistryTerms : t = skill \/ (t \in DOMAIN SKILL_ALIASES /\ SKILL_ALIASES[t] = skill)}

\* what the word-boundary rule says of one returned skill list
RespectsWordBoundaries(text, skills) ==
    /\ \A s \in Range(skills) : \E t \in TermsOf(s) : OccursDelimited(t, text)
    /\ \A t \in RegistryTerms :
          OccursDelimited(t, text) => DictGet(SKILL_ALIASES, t, t) \in Range(skills)

\* C1: skill extraction respects word boundaries. extract_skills_simple and
\* extract_skills_with_spans report a skill only if the text holds a case-insensitive
\* occurrence of one of its terms (its name or an alias) that no word character
\* precedes and none follows, and they do report the skill of a term that so occurs
\* ("ab developer" does not yield "a", "I use A daily" does).
\* It is stated for the registries in which no alias is also a canonical name, where
\* the skill of a term is unambiguous.
C1_WordBoundaries ==
    /\ call.fn \in {"extract_skills_simple", "extract_skills_with_spans"}
    /\ DOMAIN SKILL_ALIASES \cap Range(CANONICAL_SKILLS) = {}
    => RespectsWordBoundaries(call.text, call.skills)

\* The regex scan alone keeps the word-boundary rule.
WordBoundariesOfRegexScan ==
    call.fn = "extract_skills_simple" => RespectsWordBoundaries(call.text, call.skills)

\* C2: alias canonicalization. Whenever the text holds an occurrence of an alias, the
\* extraction reports the canonical name of the alias and never the alias string
\* itself, and every skill extract_skills_with_spans returns is a name of the
\* canonical list.
C2_AliasCanonicalization ==
    call.fn \in {"extract_skills_simple", "extract_skills_with_spans"}
        => /\ \A a \in DOMAIN SKILL_ALIASES :
                 OccursDelimited(a, call.text)
                     => /\ SKILL_ALIASES[a] \in Range(call.skills)
                        /\ a \notin Range(call.skills)
           /\ Range(call.skills) \subseteq Range(CANONICAL_SKILLS)

\* C9: span containment. Every span extract_skills_with_spans returns has
\* 0 <= start < end <= len(text), in characters of the text of the call, and
\* text[start:end] equals the recorded matched text up to case.
C9_SpanContainment ==
    call.fn = "extract_skills_with_spans"
        => \A i \in 1..Len(call.spans) :
              LET sp == call.spans[i]
              IN /\ 0 <= sp.start
                 /\ sp.start < sp.end
                 /\ sp.end <= Len(call.text)
                 /\ LowerStr(Slice(call.text, sp.start, sp.end)) = LowerStr(sp.text)

\* C9 witness: a call returned two spans, one of them past the start of the text,
\* one of several characters, one whose matched text is not in lower case
C9_Witness ==
    /\ call.fn = "extract_skills_with_spans"
    /\ Len(call.spans) >= 2
    /\ \E i \in 1..Len(call.spans) : call.spans[i].start > 0
    /\ \E i \in 1..Len(call.spans) : call.spans[i].end - call.spans[i].start >= 2
    /\ \E i \in 1..Len(call.spans) : call.spans[i].text # LowerStr(call.spans[i].text)

-----------------------------------------------------------------------------
(* Scoring and the /match handler.  A float is an exact fraction: the cosine is  *)
(* held in units of 1/CosineScale, skills_overlap and composite_score as         *)
(* [num, den] with den > 0.                                                      *)

\* fixed-point unit of cosine distances and similarities (the 1.0 of 1.0 - cos_dist)
CosineScale == 100

\* composite = 0.7 * cosine + 0.3 * overlap, in tenths
CosineWeight == 7

OverlapWeight == 3

WeightScale == 10

\* dimension of a stored embedding
EMBEDDING_DIM == 384

Zero == [num |-> 0, den |-> 1]

\* x < y, x = y for fractions with positive denominators
FracLess(x, y) == x.num * y.den < y.num * x.den

FracEq(x, y) == x.num * y.den = y.num * x.den

\* inter / |a| taken for inter / union
jaccard_over_required(a, b) ==
    IF a = {} /\ b = {} THEN Zero
    ELSE IF Cardinality(a) # 0
         THEN [num |-> Cardinality(a \cap b), den |-> Cardinality(a)]
         ELSE Zero

\* jaccard(a, b)
jaccard(a, b) ==
    IF a = {} /\ b = {} THEN Zero
    ELSE LET inter == Cardinality(a \cap b)
             union == Cardinality(a \cup b)
         IN IF union # 0 THEN [num |-> inter, den |-> union] ELSE Zero

\* overlap = jaccard(req_skills, res_skills) if req_skills else 0.0
SkillsOverlap(req_skills, res_skills) ==
    IF req_skills # {} THEN jaccard(req_skills, res_skills) ELSE Zero

\* the weights of the two terms exchanged
CompositeSwapped(cosine, overlap) ==
    [num |-> OverlapWeight * cosine * overlap.den + CosineWeight * CosineScale * overlap.num,
     den |-> WeightScale * CosineScale * overlap.den]

\* composite = 0.7 * float(cosine) + 0.3 * float(overlap)
Composite(cosine, overlap) ==
    [num |-> CosineWeight * cosine * overlap.den + OverlapWeight * CosineScale * overlap.num,
     den |-> WeightScale * CosineScale * overlap.den]

\* the required skills a resume has, in the order the job lists them
MatchedInListOrder(required_list, res_skills) ==
    LET Has(s) == s \in res_skills
    IN SelectSeq(required_list, Has)

\* matched = sorted(req_skills & res_skills)
MatchedSkills(required_list, res_skills) == SortedStrings(Range(required_list) \cap res_skills)

\* missing = sorted(req_skills - res_skills)
MissingSkills(required_list, res_skills) == SortedStrings(Range(required_list) \ res_skills)

\* the guard of line 991 with its len() == 0 half left out
EmbeddingIsNone(job_emb) == job_emb.none

\* job_emb is None or (hasattr(job_emb, "__len__") and len(job_emb) == 0)
EmbeddingMissing(job_emb) == job_emb.none \/ job_emb.len = 0

\* cos_sim = float(1.0 - float(cos_dist)) if cos_dist is not None else 0.0
CosSim(cos_dist) == IF cos_dist.null THEN 0 ELSE CosineScale - cos_dist.value

\* the LIMIT of the query: "k": int(max(1, k))
SearchLimit(k) == Max(1, k)

\* search_resumes_by_embedding(job_embedding, k): the first max(1, k) rows of the
\* resumes in ascending distance, as (resume_id, skills, cos_sim)
search_resumes_by_embedding(resumes, k) ==
    [i \in 1..Min(Len(resumes), SearchLimit(k)) |->
        [resume_id |-> resumes[i].id,
         skills    |-> resumes[i].skills,
         cosine    |-> CosSim(resumes[i].cos_dist)]]

\* the MatchResult of one candidate, lines 1002-1038
ScoreCandidate(required_list, cand) ==
    LET req_skills == Range(required_list)
        res_skills == Range(cand.skills)
        overlap    == SkillsOverlap(req_skills, res_skills)
    IN [resume_id       |-> cand.resume_id,
        cosine          |-> cand.cosine,
        skills_overlap  |-> overlap,
        composite_score |-> Composite(cand.cosine, overlap),
        matched_skills  |-> MatchedSkills(required_list, res_skills),
        missing_skills  |-> MissingSkills(required_list, res_skills)]

RECURSIVE SortTiesReversed(_)
\* a descending sort that puts an element before the earlier elements it ties with
SortTiesReversed(results) ==
    IF results = <<>> THEN <<>>
    ELSE LET init == SortTiesReversed(SubSeq(results, 1, Len(results) - 1))
             x    == results[Len(results)]
             n    == Cardinality({i \in 1..Len(init) :
                         FracLess(x.composite_score, init[i].composite_score)})
         IN SubSeq(init, 1, n) \o <<x>> \o SubSeq(init, n + 1, Len(init))

RECURSIVE SortByComposite(_)
\* results.sort(key=lambda r: r.composite_score, reverse=True): descending and
\* stable, an element goes after the earlier elements it ties with
SortByComposite(results) ==
    IF results = <<>> THEN <<>>
    ELSE LET init == SortByComposite(SubSeq(results, 1, Len(results) - 1))
             x    == results[Len(results)]
             n    == Cardinality({i \in 1..Len(init) :
                         ~FracLess(init[i].composite_score, x.composite_score)})
         IN SubSeq(init, 1, n) \o <<x>> \o SubSeq(init, n + 1, Len(init))

\* results[:k] for the k of the request, not clamped to at least 1
TruncateUnclamped(results, k) == SliceTo(results, k)

\* results[: max(1, k)]
Truncate(results, k) == SliceTo(results, Max(1, k))

\* match(job_id, k): the response, with what the handler called on the way
match(job, resumes, k) ==
    IF job.found = FALSE
    THEN [status |-> 404, k |-> k, note |-> "job_id not found", results |-> <<>>,
          searched |-> FALSE, limit |-> 0, topk |-> <<>>, scored |-> 0]
    ELSE IF EmbeddingMissing(job.embedding)
    THEN [status |-> 200, k |-> k, note |-> "job has no embedding", results |-> <<>>,
          searched |-> FALSE, limit |-> 0, topk |-> <<>>, scored |-> 0]
    ELSE LET topk    == search_resumes_by_embedding(resumes, k)
             results == [i \in 1..Len(topk) |-> ScoreCandidate(job.required_skills, topk[i])]
         IN [status |-> 200, k |-> k, note |-> "pgvector cosine + skills jaccard",
             results |-> Truncate(SortByComposite(results), k),
             searched |-> TRUE, limit |-> SearchLimit(k), topk |-> topk,
             scored |-> Len(results)]

-----------------------------------------------------------------------------
(* Inputs of the /match model: the rows get_job and the vector search read *)

Python == <<"p","y","t","h","o","n">>

Docker == <<"d","o","c","k","e","r">>

Kubernetes == <<"k","u","b","e","r","n","e","t","e","s">>

\* jobs.required_skills: none, or python and docker in the order they were stored
JobSkillLists == {<<>>, <<Python, Docker>>}

\* resumes.skills
ResumeSkillLists == {<<>>, <<Python>>, <<Python, Kubernetes>>, <<Python, Docker>>}

\* embedding <=> :job_vec in units of 1/CosineScale, or NULL; the cosine distance of
\* two vectors lies between 0 (same direction) and 2 * CosineScale (opposite)
CosDists == {[null |-> FALSE, value |-> 10],
             [null |-> FALSE, value |-> 20],
             [null |-> FALSE, value |-> 150],
             [null |-> TRUE, value |-> 0]}

\* what get_job(job_id) returns: None, or a job whose embedding is None, empty, or
\* a vector of EMBEDDING_DIM components
Jobs ==
    {[found |-> FALSE, required_skills |-> <<>>, embedding |-> [none |-> TRUE, len |-> 0]]}
    \cup {[found |-> TRUE, required_skills |-> <<Python, Docker>>, embedding |-> e] :
             e \in {[none |-> TRUE, len |-> 0], [none |-> FALSE, len |-> 0]}}
    \cup {[found |-> TRUE, required_skills |-> r,
           embedding |-> [none |-> FALSE, len |-> EMBEDDING_DIM]] : r \in JobSkillLists}

\* the k of a request: negative, zero, one, two, three, and one past two hundred
Ks == {-1, 0, 1, 2, 3, 201}

\* ORDER BY embedding <=> :job_vec ASC: ascending distance, NULL last
DistLeq(x, y) == y.null \/ (~x.null /\ x.value <= y.value)

\* the resumes table as the index orders it for the job's vector; a row's id is its
\* rank in that order
ResumeTables ==
    UNION {{[i \in 1..n |-> [id |-> i, skills |-> t[i].skills, cos_dist |-> t[i].cos_dist]] :
               t \in {u \in [1..n -> [skills : ResumeSkillLists, cos_dist : CosDists]] :
                         \A i \in 1..(n - 1) : DistLeq(u[i].cos_dist, u[i + 1].cos_dist)}} :
           n \in 0..MaxResumes}

-----------------------------------------------------------------------------
(* A /match request *)

InitMatch ==
    /\ pc = "request"
    /\ NLP = "en_core_web_sm"
    /\ EMBEDDER = MiniLM
    /\ reload = NoReload
    /\ render = NoRender
    /\ registry_source \in {r \in RegistrySources : ~r.readable}
    /\ CANONICAL_SKILLS = LoadedRegistry(registry_source).canon
    /\ SKILL_ALIASES = LoadedRegistry(registry_source).aliases
    /\ SKILL_PATTERNS = CompiledPatternKeys(CANONICAL_SKILLS, SKILL_ALIASES)
    /\ SKILL_CANON_BY_PHRASE = BuiltPhraseMap(CANONICAL_SKILLS, SKILL_ALIASES)
    /\ SKILL_MATCHER = BuiltPhrases(CANONICAL_SKILLS, SKILL_ALIASES, {})
    /\ call = NoCall
    /\ db \in [job : Jobs, resumes : ResumeTables]
    /\ request = NoRequest
    /\ response = NoResponse
    /\ ctx = NoCtx

\* GET /match?job_id=..&k=..
Match ==
    /\ pc = "request"
    /\ \E k \in Ks :
          /\ request' = [k |-> k]
          /\ response' = match(db.job, db.resumes, k)
    /\ pc' = "responded"
    /\ UNCHANGED <<NLP, EMBEDDER, reload, render, registry_source, CANONICAL_SKILLS, SKILL_ALIASES, SKILL_PATTERNS,
                   SKILL_CANON_BY_PHRASE, SKILL_MATCHER, call, db, ctx>>

NextMatch == Match

SpecMatch == InitMatch /\ [][NextMatch]_vars

-----------------------------------------------------------------------------
(* Claims about scoring and /match, checked under SpecMatch *)

Responded == pc = "responded" /\ response.status = 200

\* the required skill set of the job and the skill set of the resume of a result
RequiredSet == Range(db.job.required_skills)

CandidateSet(r) == Range(db.resumes[r.resume_id].skills)

\* the cosine the vector search reported for the resume of a result
CosineOf(r) ==
    IF db.resumes[r.resume_id].cos_dist.null THEN 0
    ELSE 100 - db.resumes[r.resume_id].cos_dist.value

\* the position of a resume in the list the vector search returned
RankInSearch(id) == CHOOSE i \in 1..Len(response.topk) : response.topk[i].resume_id = id

\* C3: skills_overlap is the Jaccard index of the required and the candidate skill
\* sets: |required n candidate| / |required u candidate| when the union is not
\* empty, 0 when both sets are empty, 0 whenever the required set is empty; it lies
\* in [0,1] and its denominator is never zero.
C3_JaccardOverlap ==
    Responded =>
        \A i \in 1..Len(response.results) :
            LET r     == response.results[i]
                inter == Cardinality(RequiredSet \cap CandidateSet(r))
                union == Cardinality(RequiredSet \cup CandidateSet(r))
                o     == r.skills_overlap
            IN /\ o.den > 0
               /\ 0 <= o.num /\ o.num <= o.den
               /\ (union > 0 => o.num * union = inter * o.den)
               /\ (union = 0 => o.num = 0)
               /\ (RequiredSet = {} => o.num = 0)

\* C3 witness: one response holds an overlap of 1/2 ({python, docker} against
\* {python}) and an overlap of 0 against a resume with no skill
C3_Witness ==
    /\ Responded
    /\ \E i \in 1..Len(response.results) :
          /\ response.results[i].skills_overlap.num * 2 = response.results[i].skills_overlap.den
          /\ Cardinality(CandidateSet(response.results[i])) = 1
    /\ \E i \in 1..Len(response.results) :
          /\ CandidateSet(response.results[i]) = {}
          /\ response.results[i].skills_overlap.num = 0

\* C4: composite_score = 0.7 * cosine + 0.3 * skills_overlap for every candidate
\* match processes, with these weights; it is a function of the cosine and of the
\* two skill sets alone.
C4_CompositeFormula ==
    Responded =>
        /\ \A i \in 1..Len(response.results) :
              LET r     == response.results[i]
                  inter == Cardinality(RequiredSet \cap CandidateSet(r))
                  union == Cardinality(RequiredSet \cup CandidateSet(r))
                  c     == r.composite_score
              IN /\ r.cosine = CosineOf(r)
                 /\ c.den > 0
                 /\ IF union = 0
                    THEN c.num * 1000 = 7 * CosineOf(r) * c.den
                    ELSE c.num * 1000 * union = (7 * CosineOf(r) * union + 300 * inter) * c.den
        /\ \A i, j \in 1..Len(response.results) :
              (/\ CosineOf(response.results[i]) = CosineOf(response.results[j])
               /\ CandidateSet(response.results[i]) = CandidateSet(response.results[j]))
                  => FracEq(response.results[i].composite_score,
                            response.results[j].composite_score)

\* C4 witness: cosine 0.8, required {python, docker}, candidate {python}: overlap
\* 1/2 and composite 0.71
C4_Witness ==
    /\ Responded
    /\ \E i \in 1..Len(response.results) :
          LET r == response.results[i]
          IN /\ r.cosine = 80
             /\ RequiredSet = {Python, Docker}
             /\ CandidateSet(r) = {Python}
             /\ r.composite_score.num * 100 = 71 * r.composite_score.den

\* strictly ascending in str order: sorted and free of duplicates
StrictlyAscending(seq) == \A i \in 1..(Len(seq) - 1) : StrLess(seq[i], seq[i + 1])

\* C5: for every candidate, matched_skills is the sorted, duplicate-free list of
\* required n candidate and missing_skills that of required - candidate; the two
\* lists are disjoint and together hold exactly the required skills.
C5_MatchedAndMissing ==
    Responded =>
        \A i \in 1..Len(response.results) :
            LET r == response.results[i]
            IN /\ StrictlyAscending(r.matched_skills)
               /\ StrictlyAscending(r.missing_skills)
               /\ Range(r.matched_skills) = RequiredSet \cap CandidateSet(r)
               /\ Range(r.missing_skills) = RequiredSet \ CandidateSet(r)
               /\ Range(r.matched_skills) \cap Range(r.missing_skills) = {}
               /\ Range(r.matched_skills) \cup Range(r.missing_skills) = RequiredSet

\* C5 witness: required {python, docker}; one resume with {python, kubernetes} gets
\* matched [python] and missing [docker], another has both skills matched
C5_Witness ==
    /\ Responded
    /\ \E i \in 1..Len(response.results) :
          /\ CandidateSet(response.results[i]) = {Python, Kubernetes}
          /\ response.results[i].matched_skills = <<Python>>
          /\ response.results[i].missing_skills = <<Docker>>
    /\ \E i \in 1..Len(response.results) : Len(response.results[i].matched_skills) = 2

\* C6: the no-embedding guard. When the embedding of the job is missing or of
\* length zero, match answers with an empty result list and a note saying so; it
\* raises nothing, calls neither the vector search nor the scoring of a candidate,
\* and returns no ranking.
C6_NoEmbeddingGuard ==
    (/\ pc = "responded"
     /\ db.job.found
     /\ (db.job.embedding.none \/ db.job.embedding.len = 0))
        => /\ response.status = 200
           /\ response.results = <<>>
           /\ response.note = "job has no embedding"
           /\ ~response.searched
           /\ response.scored = 0

\* C6 witness: the job has an embedding of length zero, resumes are stored, and the
\* response is empty
C6_Witness ==
    /\ pc = "responded"
    /\ db.job.found
    /\ ~db.job.embedding.none
    /\ db.job.embedding.len = 0
    /\ Len(db.resumes) >= 2
    /\ response.results = <<>>

\* C7: the results are in non-increasing order of composite_score, and two results
\* of equal composite_score are in the order in which the vector search returned
\* their candidates.
C7_SortedStable ==
    Responded =>
        \A i, j \in 1..Len(response.results) :
            i < j =>
                LET a == response.results[i]
                    b == response.results[j]
                IN /\ ~FracLess(a.composite_score, b.composite_score)
                   /\ (FracEq(a.composite_score, b.composite_score)
                          => RankInSearch(a.resume_id) < RankInSearch(b.resume_id))

\* C7 witness: the sort moved a candidate ahead of one the search ranked before it,
\* and two candidates tie
C7_Witness ==
    /\ Responded
    /\ \E i, j \in 1..Len(response.results) :
          /\ i < j
          /\ RankInSearch(response.results[i].resume_id)
                 > RankInSearch(response.results[j].resume_id)
    /\ \E i, j \in 1..Len(response.results) :
          /\ i < j
          /\ FracEq(response.results[i].composite_score, response.results[j].composite_score)

\* C8: match returns at most max(1, k) results for every k, k <= 0 included, and no
\* candidate its truncation drops has a composite_score above that of a candidate
\* it keeps. The search returns at most max(1, k) candidates, so the truncation
\* keeps every candidate it is given.
C8_AtMostK ==
    Responded =>
        LET kept    == {response.results[i].resume_id : i \in 1..Len(response.results)}
            scored  == [i \in 1..Len(response.topk) |->
                           ScoreCandidate(db.job.required_skills, response.topk[i])]
            dropped == {i \in 1..Len(scored) : scored[i].resume_id \notin kept}
        IN /\ Len(response.results) <= (IF request.k >= 1 THEN request.k ELSE 1)
           /\ \A d \in dropped : \A i \in 1..Len(response.results) :
                 ~FracLess(response.results[i].composite_score, scored[d].composite_score)
           /\ dropped = {}

\* C8 witness: k <= 0, several resumes stored, one result returned
C8_Witness ==
    /\ Responded
    /\ request.k <= 0
    /\ Len(db.resumes) >= 2
    /\ Len(response.results) = 1

-----------------------------------------------------------------------------
(* Claims about context terms, checked under SpecContext *)

\* C10: context exclusion. No term extract_context_terms returns is a string of the
\* skill vocabulary (a canonical name or an alias of the registry) and none is a
\* member of the exclude_terms passed in.
C10_ContextExclusion ==
    ctx.fn = "extract_context_terms"
        => \A i \in 1..Len(ctx.terms) :
              /\ ctx.terms[i] \notin Range(CANONICAL_SKILLS) \cup DOMAIN SKILL_ALIASES
              /\ ctx.terms[i] \notin Range(ctx.exclude_terms)

\* What the code keeps of it: no canonical name and no member of exclude_terms.
ContextExcludesCanonicalNames ==
    ctx.fn = "extract_context_terms"
        => \A i \in 1..Len(ctx.terms) :
              /\ ctx.terms[i] \notin Range(CANONICAL_SKILLS)
              /\ ctx.terms[i] \notin Range(ctx.exclude_terms)

-----------------------------------------------------------------------------
(* Claims about the registry and the extraction calls, checked under SpecExtract *)

\* the registry has been loaded
Loaded == pc # "import"

\* the source is missing or unparsable, holds an element that is no object, or
\* gives no name that is non-empty once trimmed
NoUsableNames(source) ==
    \/ ~source.readable
    \/ \E i \in 1..Len(source.skills) : "name" \notin DOMAIN source.skills[i]
    \/ \A i \in 1..Len(source.skills) :
          \A j \in 1..Len(source.skills[i].name) : source.skills[i].name[j] = " "

\* C11: registry fallback. Loading the registry never leaves the canonical list
\* empty, and when the source is missing, unparsable, malformed or gives no
\* non-empty name the registry is exactly the fallback vocabulary ["python", "sql"]
\* with no aliases.
C11_RegistryFallback ==
    Loaded =>
        /\ CANONICAL_SKILLS # <<>>
        /\ NoUsableNames(registry_source) =>
              /\ CANONICAL_SKILLS = << <<"p","y","t","h","o","n">>, <<"s","q","l">> >>
              /\ DOMAIN SKILL_ALIASES = {}

\* C11 witness: the source names a skill and then holds an element that is no
\* object; the process serves with the fallback vocabulary
C11_Witness ==
    /\ pc = "serving"
    /\ registry_source.readable
    /\ \E i \in 1..Len(registry_source.skills) : "name" \notin DOMAIN registry_source.skills[i]
    /\ \E i \in 1..Len(registry_source.skills) : "name" \in DOMAIN registry_source.skills[i]
    /\ Len(CANONICAL_SKILLS) = 2
    /\ DOMAIN SKILL_ALIASES = {}

\* C12: registry invariant. After load_skills_registry the canonical names are
\* unique, every alias maps to one canonical name that is in the canonical list,
\* and no canonical name is a key of the alias map.
C12_RegistryInvariant ==
    Loaded =>
        /\ \A i, j \in 1..Len(CANONICAL_SKILLS) :
              CANONICAL_SKILLS[i] = CANONICAL_SKILLS[j] => i = j
        /\ \A a \in DOMAIN SKILL_ALIASES : SKILL_ALIASES[a] \in Range(CANONICAL_SKILLS)
        /\ DOMAIN SKILL_ALIASES \cap Range(CANONICAL_SKILLS) = {}

\* What the loader keeps of it: every alias maps to a name of the canonical list.
AliasesMapToCanonicalNames ==
    Loaded => \A a \in DOMAIN SKILL_ALIASES : SKILL_ALIASES[a] \in Range(CANONICAL_SKILLS)

C14_EmptyText ==
    (call.fn # "none" /\ call.text = <<>>) =>
        /\ call.skills = <<>>
        /\ call.spans = <<>>
        /\ call.consulted = {}

\* C14 witness: extract_skills_simple has returned for the empty text while the
\* registry holds skills
C14_Witness ==
    /\ pc = "returned"
    /\ call.fn = "extract_skills_simple"
    /\ call.text = <<>>
    /\ call.skills = <<>>
    /\ SKILL_PATTERNS # {}

-----------------------------------------------------------------------------
(* More claims about context terms, checked under SpecContext *)

\* extract_context_terms has returned a list
ContextReturned == ctx.fn = "extract_context_terms" /\ ~ctx.raised

\* (job candidate terms n resume candidate terms) minus the exclude set
ContextCandidates ==
    (terms_from_doc(ctx.doc_j) \cap terms_from_doc(ctx.doc_r))
        \ (Range(ctx.exclude_terms) \cup Range(CANONICAL_SKILLS))

\* C15: extract_context_terms returns the first max_terms elements of the list made
\* of (job candidate terms n resume candidate terms) minus the exclude set, sorted
\* by descending length with ties in ascending alphabetical order; the result has
\* no duplicate and at most max_terms elements.
C15_ContextRanking ==
    (ContextReturned /\ ctx.doc_j.text # <<>> /\ ctx.doc_r.text # <<>>) =>
        LET r    == ctx.terms
            left == ContextCandidates \ Range(r)
            Before(x, y) == Len(x) > Len(y) \/ (Len(x) = Len(y) /\ StrLess(x, y))
        IN /\ Len(r) <= ctx.max_terms
           /\ Range(r) \subseteq ContextCandidates
           /\ \A i, j \in 1..Len(r) : i < j => Before(r[i], r[j])
           /\ \A x \in left : \A i \in 1..Len(r) : Before(r[i], x)
           /\ left # {} => Len(r) = ctx.max_terms

\* C15 witness: three candidate terms, max_terms = 2, and the two terms returned
\* have the same length
C15_Witness ==
    /\ ContextReturned
    /\ ctx.max_terms = 2
    /\ Cardinality(ContextCandidates) = 3
    /\ Len(ctx.terms) = 2
    /\ Len(ctx.terms[1]) = Len(ctx.terms[2])

\* C16: with the blank pipeline in use, extract_context_terms returns an empty list
\* without raising for every non-empty job text and resume text.
C16_BlankPipelineDegrades ==
    (ctx.fn = "extract_context_terms" /\ NLP = "blank"
        /\ ctx.doc_j.text # <<>> /\ ctx.doc_r.text # <<>>) =>
        /\ ~ctx.raised
        /\ ctx.terms = <<>>

-----------------------------------------------------------------------------
(* Claims about rendering, checked under SpecRender *)

\* every slice the rendering took has both offsets in [0, len(text)]
SlicesWithinText ==
    \A i \in 1..Len(render.slices) :
        /\ 0 <= render.slices[i][1] /\ render.slices[i][1] <= Len(render.text)
        /\ 0 <= render.slices[i][2] /\ render.slices[i][2] <= Len(render.text)

\* C17: malformed span input is clamped. For every text and every spans with any
\* integer start and end, render_highlight_full and make_highlight_snippet clamp
\* every offset into [0, len(text)] before they slice the text with it.
C17_SpansClamped ==
    render.fn \in {"render_highlight_full", "make_highlight_snippet"} => SlicesWithinText

\* What holds of it: render_highlight_full clamps.
RenderHighlightFullClamps == render.fn = "render_highlight_full" => SlicesWithinText

-----------------------------------------------------------------------------
(* Claims about static assets, checked under SpecStatic *)

\* C19: for every requested filename, GET /static/js/{filename} responds
\* successfully with a Content-Type of application/javascript.
C19_JavascriptMimeType ==
    pc = "responded" =>
        /\ response.status = 200
        /\ response.content_type.type = "application"
        /\ response.content_type.subtype = "javascript"

\* C19 witness: a file in a sub-directory has been requested and served
C19_Witness ==
    /\ pc = "responded"
    /\ \E i \in 1..Len(request.filename) : request.filename[i] = "/"
    /\ response.module_for = request.filename
    /\ response.status = 200

-----------------------------------------------------------------------------
(* Claims about the merge of the two extraction paths, checked under SpecExtract *)

\* the spans of the phrase matcher's occurrences in the text of the call
MatcherOccurrences ==
    LET toks == Tokenize(call.text)
    IN {SkillSpan(call.text, toks, m) : m \in MatcherMatches(SKILL_MATCHER, call.text, toks)}

\* C20: merge rule. The skill list extract_skills_with_spans returns is the sorted,
\* duplicate-free union of the canonical skills the phrase matcher found and of
\* those the regex scan of the whole text found; the regex scan adds no span, so
\* every span is an occurrence the phrase matcher found.
C20_MergeRule ==
    (call.fn = "extract_skills_with_spans" /\ call.text # <<>>) =>
        LET by_matcher == {sp.skill : sp \in {o \in MatcherOccurrences :
                                                 o.skill \in Range(CANONICAL_SKILLS)}}
            by_regex   == Range(extract_skills_simple(call.text))
        IN /\ StrictlyAscending(call.skills)
           /\ Range(call.skills) = by_matcher \cup by_regex
           /\ \A i \in 1..Len(call.spans) : call.spans[i] \in MatcherOccurrences
           /\ {call.spans[i].skill : i \in 1..Len(call.spans)} = by_matcher

\* C20 witness: a skill only the regex scan found is in the list, beside a skill
\* with a span
C20_Witness ==
    /\ call.fn = "extract_skills_with_spans"
    /\ call.spans # <<>>
    /\ \E i \in 1..Len(call.skills) :
          \A j \in 1..Len(call.spans) : call.spans[j].skill # call.skills[i]

-----------------------------------------------------------------------------
(* Claims about the reload of the registry, checked under SpecReload *)

\* C18: registry reload is atomic for readers. A request that runs while
\* load_skills_registry / build_skill_matcher run sees the complete old registry
\* or the complete new one: never the canonical list of one with the alias map,
\* the compiled patterns or the phrase map of the other, never a phrase map that
\* is partly filled.
C18_ReloadAtomic ==
    (call.fn = "extract_skills_with_spans" /\ "seen" \in DOMAIN call) =>
        \/ call.seen = CompleteRegistry(registry_source)
        \/ reload.active /\ call.seen = CompleteRegistry(reload.old)

\* Once the reload has returned, everything but the compiled patterns is the new
\* registry's.
ReloadedButForPatterns ==
    pc = "reloaded" =>
        /\ CANONICAL_SKILLS = CompleteRegistry(registry_source).canon
        /\ SKILL_ALIASES = CompleteRegistry(registry_source).aliases
        /\ SKILL_CANON_BY_PHRASE = CompleteRegistry(registry_source).phrase_map
        /\ SKILL_MATCHER = CompleteRegistry(registry_source).matcher
        /\ SKILL_PATTERNS = CompleteRegistry(reload.old).patterns

-----------------------------------------------------------------------------
(* Claims about spans and skills of one extraction, checked under SpecExtract *)

\* C21: span/skill consistency. Every span extract_skills_with_spans returns
\* carries a skill that is in the skill list the same call returns.
C21_SpanSkillConsistency ==
    call.fn = "extract_skills_with_spans" =>
        \A i \in 1..Len(call.spans) :
            \E j \in 1..Len(call.skills) : call.skills[j] = call.spans[i].skill

\* C21 witness: the call returned spans of two skills, one of them for a text the
\* regex scan finds nothing in at that place (the tokenizer split an underscore off)
C21_Witness ==
    /\ call.fn = "extract_skills_with_spans"
    /\ \E i, j \in 1..Len(call.spans) : call.spans[i].skill # call.spans[j].skill
    /\ \E i \in 1..Len(call.spans) :
          call.spans[i].skill \notin Range(extract_skills_simple(call.text))

-----------------------------------------------------------------------------
(* Claims about find_spans_for_terms, checked under SpecSpans *)

\* the spans returned for the term t
SpansOfTerm(t) ==
    {i \in 1..Len(call.spans) : LowerStr(call.spans[i].text) = LowerStr(t)}

\* C23: find_spans_for_terms returns one span per case-insensitive, word-boundary
\* delimited, non-overlapping occurrence of each term, with
\* 0 <= start < end <= len(text) and span text text[start:end]; a term that does
\* not occur gives no span, and an empty text or an empty term list gives [].
C23_SpansOfTerms ==
    call.fn = "find_spans_for_terms" =>
        /\ (call.text = <<>> \/ call.terms = <<>>) => call.spans = <<>>
        /\ \A i \in 1..Len(call.spans) :
              LET sp == call.spans[i]
              IN /\ 0 <= sp.start /\ sp.start < sp.end /\ sp.end <= Len(call.text)
                 /\ sp.text = SubSeq(call.text, sp.start + 1, sp.end)
                 /\ \E t \in Range(call.terms) :
                       /\ Len(t) = sp.end - sp.start
                       /\ OccursDelimitedAt(t, call.text, sp.start)
        /\ \A t \in Range(call.terms) :
              /\ \A i, j \in SpansOfTerm(t) :
                    i # j => \/ call.spans[i].end <= call.spans[j].start
                             \/ call.spans[j].end <= call.spans[i].start
              /\ \A o \in 0..Len(call.text) :
                    OccursDelimitedAt(t, call.text, o) =>
                        \E i \in SpansOfTerm(t) :
                            /\ call.spans[i].start <= o
                            /\ o < call.spans[i].end
              /\ ~OccursDelimited(t, call.text) => SpansOfTerm(t) = {}

\* C23 witness: a term occurs at two offsets that overlap and one span is returned
\* for it, while another term of the list does not occur
C23_Witness ==
    /\ call.fn = "find_spans_for_terms"
    /\ \E t \in Range(call.terms) :
          /\ \E o1, o2 \in 0..Len(call.text) :
                /\ o1 < o2 /\ o2 < o1 + Len(t)
                /\ OccursDelimitedAt(t, call.text, o1)
                /\ OccursDelimitedAt(t, call.text, o2)
          /\ Cardinality(SpansOfTerm(t)) = 1
    /\ \E t \in Range(call.terms) : ~OccursDelimited(t, call.text)

-----------------------------------------------------------------------------
(* /match with its explanations: lines 1009-1038, the spans and the context      *)
(* terms computed for each candidate from the resume's cleaned text              *)

\* NLP(text) for a text of the model
DocOf(nlp, text) == CHOOSE d \in DocsOf(nlp) : d.text = text

NoExplanation ==
    [raised |-> FALSE, matched_spans |-> <<>>, context_terms |-> <<>>,
     context_job_spans |-> <<>>, context_resume_spans |-> <<>>]

\* lines 1010-1022 for one candidate: cleaned_text_row is the scalar of the SELECT
\* (NULL, or a str), matched is the candidate's matched_skills
ExplainCandidate(job_desc, cleaned_text_row, matched) ==
    IF cleaned_text_row.null \/ cleaned_text_row.value = <<>>
    THEN NoExplanation
    ELSE LET text      == cleaned_text_row.value
             spans_all == extract_skills_with_spans(text).spans
             InMatched(sp) == sp.skill \in Range(matched)
             raised    == ContextTermsRaises(NLP, DocOf(NLP, job_desc), DocOf(NLP, text))
             context_terms ==
                 IF raised THEN <<>>
                 ELSE extract_context_terms(DocOf(NLP, job_desc), DocOf(NLP, text),
                                            matched, DefaultMaxTerms)
         IN [raised |-> raised,
             matched_spans |-> SelectSeq(spans_all, InMatched),
             context_terms |-> context_terms,
             context_job_spans |-> find_spans_for_terms(job_desc, context_terms),
             context_resume_spans |-> find_spans_for_terms(text, context_terms)]

\* SELECT cleaned_text FROM resumes WHERE id=:id
CleanedTextOf(resumes, id) ==
    resumes[CHOOSE i \in 1..Len(resumes) : resumes[i].id = id].cleaned_text

\* match(job_id, k) with the explanation fields of every MatchResult; an exception
\* raised inside the handler is the response 500
match_explained(job, resumes, k) ==
    LET base == match(job, resumes, k)
        Explained(res) ==
            ExplainCandidate(job.description_cleaned, CleanedTextOf(resumes, res.resume_id),
                             res.matched_skills)
    IN IF ~base.searched THEN base
       ELSE IF \E i \in 1..Len(base.results) : Explained(base.results[i]).raised
            THEN [status |-> 500, k |-> k, note |-> "Internal Server Error",
                  results |-> <<>>, searched |-> TRUE, limit |-> base.limit,
                  topk |-> base.topk, scored |-> base.scored]
            ELSE [base EXCEPT !.results =
                     [i \in 1..Len(base.results) |->
                         base.results[i] @@ Explained(base.results[i])]]

Aba == <<"a", "b", "a">>

\* jobs with a description among the parsed texts
ExplainJobs ==
    {[found |-> TRUE, required_skills |-> r,
      embedding |-> [none |-> FALSE, len |-> EMBEDDING_DIM],
      description_cleaned |-> d.text] : r \in {<<>>, <<Aba>>, <<Aba, Python>>}, d \in ContextDocs}

\* resumes rows: skills, and a cleaned text that is NULL or one of the parsed texts
ExplainRows ==
    [skills : {<<>>, <<Aba>>},
     cos_dist : {[null |-> FALSE, value |-> 10]},
     cleaned_text : {[null |-> TRUE, value |-> <<>>]}
                    \cup {[null |-> FALSE, value |-> d.text] : d \in ContextDocs}]

ExplainTables ==
    {<<[id |-> 1] @@ a>> : a \in ExplainRows}
    \cup {<<[id |-> 1] @@ a, [id |-> 2] @@ b>> : a \in ExplainRows, b \in ExplainRows}

\* the process after import, with the registry that names the skill "aba"
InitExplain ==
    /\ pc = "request"
    /\ NLP \in Pipelines
    /\ EMBEDDER = MiniLM
    /\ reload = NoReload
    /\ render = NoRender
    /\ registry_source \in {r \in RegistrySources : LoadedRegistry(r).canon = <<Aba>>}
    /\ CANONICAL_SKILLS = LoadedRegistry(registry_source).canon
    /\ SKILL_ALIASES = LoadedRegistry(registry_source).aliases
    /\ SKILL_PATTERNS = CompiledPatternKeys(CANONICAL_SKILLS, SKILL_ALIASES)
    /\ SKILL_CANON_BY_PHRASE = BuiltPhraseMap(CANONICAL_SKILLS, SKILL_ALIASES)
    /\ SKILL_MATCHER = BuiltPhrases(CANONICAL_SKILLS, SKILL_ALIASES, {})
    /\ call = NoCall
    /\ db \in [job : ExplainJobs, resumes : ExplainTables]
    /\ request = NoRequest
    /\ response = NoResponse
    /\ ctx = NoCtx

\* GET /match?job_id=...&k=...
MatchExplained ==
    /\ pc = "request"
    /\ \E k \in {1, 2} :
          /\ request' = [k |-> k]
          /\ response' = match_explained(db.job, db.resumes, k)
    /\ pc' = "responded"
    /\ UNCHANGED <<NLP, EMBEDDER, reload, render, registry_source, CANONICAL_SKILLS, SKILL_ALIASES,
                   SKILL_PATTERNS, SKILL_CANON_BY_PHRASE, SKILL_MATCHER, call, db, ctx>>

NextExplain == MatchExplained

SpecExplain == InitExplain /\ [][NextExplain]_vars

-----------------------------------------------------------------------------
(* Claims about the explanations of /match, checked under SpecExplain *)

\* the rows the request's search returns
RowsSearched ==
    {i \in 1..Len(db.resumes) : i <= (IF request.k >= 1 THEN request.k ELSE 1)}

\* matched_spans point into the resume's text with skills of matched_skills, and a
\* candidate without text has its MatchResult, with nothing to explain in it
ExplainedConsistently ==
    /\ \A n \in 1..Len(response.results) :
          LET res  == response.results[n]
              text == CleanedTextOf(db.resumes, res.resume_id).value
          IN \A i \in 1..Len(res.matched_spans) :
                LET sp == res.matched_spans[i]
                IN /\ sp.skill \in Range(res.matched_skills)
                   /\ 0 <= sp.start /\ sp.start < sp.end /\ sp.end <= Len(text)
                   /\ sp.text = SubSeq(text, sp.start + 1, sp.end)
    /\ \A i \in RowsSearched :
          (db.resumes[i].cleaned_text.null \/ db.resumes[i].cleaned_text.value = <<>>) =>
              \E n \in 1..Len(response.results) :
                  /\ response.results[n].resume_id = db.resumes[i].id
                  /\ response.results[n].matched_spans = <<>>
                  /\ response.results[n].context_terms = <<>>
                  /\ response.results[n].context_job_spans = <<>>
                  /\ response.results[n].context_resume_spans = <<>>

\* C22: in every MatchResult each entry of matched_spans has a skill of that
\* result's matched_skills and offsets into that resume's cleaned text; when the
\* cleaned text of a resume is unavailable or empty, a MatchResult is still
\* produced for the candidate, with matched_spans, context_terms,
\* context_job_spans and context_resume_spans all empty.
C22_MatchedSpans == pc = "responded" => ExplainedConsistently

\* What holds of it: the same, with the parsing pipeline loaded.
MatchedSpansWithParser ==
    (pc = "responded" /\ NLP = "en_core_web_sm") => ExplainedConsistently

-----------------------------------------------------------------------------
(* Claims about the length of context terms, checked under SpecContext *)

\* C24: every term extract_context_terms returns has at least 3 characters:
\* noun-phrase terms have between 3 and 60 characters and are not numeric, and
\* single-word terms, the lemmas that are returned, have at least 3 characters.
C24_MinTermLength ==
    ContextReturned =>
        \A i \in 1..Len(ctx.terms) :
            /\ Len(ctx.terms[i]) >= 3
            /\ Len(ctx.terms[i]) <= 60
            /\ \E j \in 1..Len(ctx.terms[i]) : ctx.terms[i][j] \notin Range(Digits)

\* What holds of it: a returned term shorter than 3 characters is the lemma of a
\* token of both texts whose text has 3 characters or more.
ShortTermsAreLemmas ==
    ContextReturned =>
        \A i \in 1..Len(ctx.terms) :
            Len(ctx.terms[i]) < 3 =>
                \E n \in 1..Len(ctx.doc_j.tokens), m \in 1..Len(ctx.doc_r.tokens) :
                    /\ LowerStr(ctx.doc_j.tokens[n].lemma) = ctx.terms[i]
                    /\ LowerStr(ctx.doc_r.tokens[m].lemma) = ctx.terms[i]
                    /\ Len(ctx.doc_j.tokens[n].text) >= 3
                    /\ Len(ctx.doc_r.tokens[m].text) >= 3

-----------------------------------------------------------------------------
(* Claims about the lookup structures after a reload, checked under SpecReload *)

\* no load or reload is under way
RegistryAtRest == pc \in {"serving", "reloaded"}

\* C25: after any sequence of registry load and reload operations the key set of
\* the compiled patterns (_SKILL_PATTERNS) and that of the phrase map
\* (SKILL_CANON_BY_PHRASE) each equal the canonical names and the aliases of the
\* registry that is loaded: no stale entry, none missing.
C25_LookupsAgree ==
    RegistryAtRest =>
        /\ SKILL_PATTERNS = Range(CANONICAL_SKILLS) \cup DOMAIN SKILL_ALIASES
        /\ DOMAIN SKILL_CANON_BY_PHRASE = Range(CANONICAL_SKILLS) \cup DOMAIN SKILL_ALIASES

\* What holds of it: the phrase map agrees with the loaded registry.
PhraseMapAgrees ==
    RegistryAtRest =>
        DOMAIN SKILL_CANON_BY_PHRASE = Range(CANONICAL_SKILLS) \cup DOMAIN SKILL_ALIASES


\* C26: every cosine and every composite_score of a MatchResult lies between 0 and 1
\* inclusive, whatever distance the index returned for the resume, NULL included
C26_ScoresInUnitInterval ==
    Responded =>
        \A i \in 1..Len(response.results) :
            LET res == response.results[i]
            IN  /\ 0 <= res.cosine /\ res.cosine <= CosineScale
                /\ 0 <= res.composite_score.num
                /\ res.composite_score.num <= res.composite_score.den

\* what does hold: a distance of at most CosineScale, or NULL, gives scores in [0, 1]
ScoresInUnitIntervalForNearRows ==
    Responded =>
        \A i \in 1..Len(response.results) :
            LET res == response.results[i]
                row == db.resumes[res.resume_id]
            IN  (row.cos_dist.null \/ row.cos_dist.value <= CosineScale) =>
                    /\ 0 <= res.cosine /\ res.cosine <= CosineScale
                    /\ 0 <= res.composite_score.num
                    /\ res.composite_score.num <= res.composite_score.den

\* C27: whatever k the caller supplies, match asks the nearest-neighbour search for at
\* most 200 candidates and scores and returns at most 200 results
C27_KClamped ==
    (Responded /\ response.searched) =>
        /\ response.limit <= 200
        /\ response.scored <= 200
        /\ Len(response.results) <= 200

\* what does hold: the search is asked for max(1, k) rows and no more come back
LimitFollowsK ==
    (Responded /\ response.searched) =>
        /\ response.limit = (IF request.k >= 1 THEN request.k ELSE 1)
        /\ response.scored <= response.limit
        /\ Len(response.results) <= response.limit

-----------------------------------------------------------------------------
(* Skill lists: normalize_skill_list *)

RECURSIVE NormalizeFrom(_, _, _, _)
\* the loop of normalize_skill_list over skills, with normalized and seen so far
NormalizeFrom(skills, aliases, normalized, seen) ==
    IF skills = <<>> THEN normalized
    ELSE LET t     == LowerStr(Strip(Head(skills)))
             canon == DictGet(aliases, t, t)
         IN IF t = <<>>
            THEN NormalizeFrom(Tail(skills), aliases, normalized, seen)
            ELSE IF canon \notin seen
                 THEN NormalizeFrom(Tail(skills), aliases, Append(normalized, canon),
                                    seen \cup {canon})
                 ELSE NormalizeFrom(Tail(skills), aliases, normalized, seen)

normalize_skill_list(skills, aliases) == NormalizeFrom(skills, aliases, <<>>, {})

\* skill strings as extraction or a client supplies them
SkillStrings == {<<"a">>, <<"b">>, <<"a", "b">>, <<" ", "B", " ">>, <<"A">>, <<" ">>}

\* lists of up to two of them
SkillLists == {<<>>} \cup {<<x>> : x \in SkillStrings}
                  \cup {<<x, y>> : x \in SkillStrings, y \in SkillStrings}

InitNormalize ==
    /\ pc = "serving"
    /\ NLP = "en_core_web_sm"
    /\ EMBEDDER = MiniLM
    /\ reload = NoReload
    /\ render = NoRender
    /\ registry_source \in RegistrySources
    /\ CANONICAL_SKILLS = LoadedRegistry(registry_source).canon
    /\ SKILL_ALIASES = LoadedRegistry(registry_source).aliases
    /\ SKILL_PATTERNS = CompiledPatternKeys(CANONICAL_SKILLS, SKILL_ALIASES)
    /\ SKILL_CANON_BY_PHRASE = BuiltPhraseMap(CANONICAL_SKILLS, SKILL_ALIASES)
    /\ SKILL_MATCHER = BuiltPhrases(CANONICAL_SKILLS, SKILL_ALIASES, {})
    /\ call = NoCall
    /\ db = NoDb
    /\ request = NoRequest
    /\ response = NoResponse
    /\ ctx = NoCtx

\* normalize_skill_list(xs)
NormalizeSkillList ==
    /\ pc = "serving"
    /\ \E xs \in SkillLists :
          call' = [fn |-> "normalize_skill_list", text |-> <<>>, input |-> xs,
                   first |-> normalize_skill_list(xs, SKILL_ALIASES),
                   skills |-> normalize_skill_list(xs, SKILL_ALIASES),
                   passes |-> 1, spans |-> <<>>, consulted |-> {}]
    /\ pc' = "returned"
    /\ UNCHANGED <<NLP, EMBEDDER, reload, render, registry_source, CANONICAL_SKILLS, SKILL_ALIASES,
                   SKILL_PATTERNS, SKILL_CANON_BY_PHRASE, SKILL_MATCHER, db, request,
                   response, ctx>>

\* normalize_skill_list applied to the list it returned
NormalizeAgain ==
    /\ pc = "returned"
    /\ call.fn = "normalize_skill_list"
    /\ call.passes = 1
    /\ call' = [call EXCEPT !.skills = normalize_skill_list(call.skills, SKILL_ALIASES),
                            !.passes = 2]
    /\ pc' = "returned"
    /\ UNCHANGED <<NLP, EMBEDDER, reload, render, registry_source, CANONICAL_SKILLS, SKILL_ALIASES,
                   SKILL_PATTERNS, SKILL_CANON_BY_PHRASE, SKILL_MATCHER, db, request,
                   response, ctx>>

NextNormalize ==
    \/ NormalizeSkillList
    \/ NormalizeAgain
    \/ ReturnToCaller

SpecNormalize == InitNormalize /\ [][NextNormalize]_vars

\* no duplicates in a list
NoDuplicates(seq) == \A i, j \in 1..Len(seq) : seq[i] = seq[j] => i = j

\* C28: normalize_skill_list applied to its own output returns that output, for every
\* loaded registry and every input list; the output is trimmed, lowercased,
\* alias-resolved, free of duplicates and in first-occurrence order
C28_NormalizeIdempotent ==
    (call.fn = "normalize_skill_list" /\ call.passes = 2) =>
        /\ call.skills = call.first
        /\ \A i \in 1..Len(call.first) : call.first[i] \notin DOMAIN SKILL_ALIASES

\* what does hold: the output is trimmed, lowercased and free of duplicates for every
\* registry, and a second pass changes nothing when no name of the output is an alias
NormalizeIdempotentOnResolved ==
    call.fn = "normalize_skill_list" =>
        /\ NoDuplicates(call.first)
        /\ \A i \in 1..Len(call.first) :
              /\ call.first[i] # <<>>
              /\ call.first[i] = LowerStr(Strip(call.first[i]))
        /\ (call.passes = 2 /\ \A i \in 1..Len(call.first) :
                                  call.first[i] \notin DOMAIN SKILL_ALIASES) =>
              call.skills = call.first

-----------------------------------------------------------------------------
(* Claims about rendering, checked under SpecRender *)

\* seq begins with prefix
StartsWith(seq, prefix) ==
    Len(seq) >= Len(prefix) /\ SubSeq(seq, 1, Len(prefix)) = prefix

RECURSIVE StripMarks(_)
\* html with every <mark> and </mark> deleted
StripMarks(html) ==
    IF html = <<>> THEN <<>>
    ELSE IF StartsWith(html, MarkOpen)
         THEN StripMarks(SubSeq(html, Len(MarkOpen) + 1, Len(html)))
    ELSE IF StartsWith(html, MarkClose)
         THEN StripMarks(SubSeq(html, Len(MarkClose) + 1, Len(html)))
    ELSE <<Head(html)>> \o StripMarks(Tail(html))

\* the slices of the text that went into the output follow one another, none reversed
SlicesAscending ==
    /\ \A i \in 1..Len(render.slices) : render.slices[i][1] <= render.slices[i][2]
    /\ \A i \in 1..(Len(render.slices) - 1) :
          render.slices[i][2] <= render.slices[i + 1][1]

\* C29: for every text and every list of spans with arbitrary integer offsets, the
\* output of render_highlight_full without its <mark> and </mark> tags is exactly the
\* escaped text, and the highlighted regions are disjoint and in ascending order
C29_RenderPreservesText ==
    render.fn = "render_highlight_full" =>
        /\ StripMarks(render.html) = escape(render.text)
        /\ SlicesAscending

\* what does hold: the text is preserved when no span ends before it starts
RenderPreservesTextForwardSpans ==
    (/\ render.fn = "render_highlight_full"
     /\ \A i \in 1..Len(render.spans) : render.spans[i].start <= render.spans[i].end) =>
        /\ StripMarks(render.html) = escape(render.text)
        /\ SlicesAscending

-----------------------------------------------------------------------------
(* Job upload: clean_text_pipeline, embed_text, upload_job, upload_job_form *)

RECURSIVE CollapseSpaces(_)
\* re.sub(r"[ \t]+", " ", t)
CollapseSpaces(text) ==
    IF text = <<>> THEN <<>>
    ELSE IF Len(text) >= 2 /\ IsSpace(text[1]) /\ IsSpace(text[2])
         THEN CollapseSpaces(Tail(text))
         ELSE <<IF IsSpace(Head(text)) THEN " " ELSE Head(text)>> \o CollapseSpaces(Tail(text))

\* normalize_text(text) of a text without newlines, hyphens or compatibility characters
normalize_text(text) == IF text = <<>> THEN <<>> ELSE Strip(CollapseSpaces(text))

\* clean_text_pipeline(text) of a text of letters and spaces, in which
\* strip_markdown_and_bullets finds nothing to remove
clean_text_pipeline(text) == normalize_text(normalize_text(text))

\* extract_skills(text)
extract_skills(text) == extract_skills_with_spans(text).skills

\* [0.0] * EMBEDDING_DIM
ZeroVector == [none |-> FALSE, len |-> EMBEDDING_DIM, zero |-> TRUE]

\* an empty list for an empty text
embed_text_or_empty(text) ==
    IF text = <<>> THEN [none |-> FALSE, len |-> 0, zero |-> TRUE]
    ELSE IF EMBEDDER = "None" THEN ZeroVector
    ELSE [none |-> FALSE, len |-> EMBEDDING_DIM, zero |-> FALSE]

\* embed_text(text): the zero vector for an empty text or without a model, else the
\* normalized encoding, of the model's dimension
embed_text(text) ==
    IF text = <<>> THEN ZeroVector
    ELSE IF EMBEDDER = "None" THEN ZeroVector
    ELSE [none |-> FALSE, len |-> EMBEDDING_DIM, zero |-> FALSE]

\* the separators of re.split(r'[\n,;]+', value)
IsSeparator(c) == c \in {"\n", ",", ";"}

RECURSIVE SplitParts(_, _, _)
\* the parts of value between separators, cur being the part under way
SplitParts(value, cur, parts) ==
    IF value = <<>> THEN Append(parts, cur)
    ELSE IF IsSeparator(Head(value))
         THEN SplitParts(Tail(value), <<>>, Append(parts, cur))
         ELSE SplitParts(Tail(value), Append(cur, Head(value)), parts)

RECURSIVE StrippedNonEmpty(_)
\* [p.strip() for p in parts if p.strip()]
StrippedNonEmpty(parts) ==
    IF parts = <<>> THEN <<>>
    ELSE IF Strip(Head(parts)) = <<>> THEN StrippedNonEmpty(Tail(parts))
         ELSE <<Strip(Head(parts))>> \o StrippedNonEmpty(Tail(parts))

\* parse_skill_str_list(value)
parse_skill_str_list(value) ==
    IF value.null \/ value.value = <<>> THEN <<>>
    ELSE StrippedNonEmpty(SplitParts(value.value, <<>>, <<>>))

\* the row upload_job inserts
upload_job(payload) ==
    LET cleaned_desc == clean_text_pipeline(payload.description)
        given        == payload.required_skills
        required     == IF given.null \/ given.value = <<>>
                        THEN extract_skills(cleaned_desc) ELSE given.value
    IN [found |-> TRUE,
        description_cleaned |-> cleaned_desc,
        required_skills |-> normalize_skill_list(required, SKILL_ALIASES),
        embedding |-> embed_text(cleaned_desc)]

\* the row upload_job_form inserts
upload_job_form(description, required_skills) ==
    LET cleaned_desc == clean_text_pipeline(description)
        req_list     == parse_skill_str_list(required_skills)
    IN [found |-> TRUE,
        description_cleaned |-> cleaned_desc,
        required_skills |-> IF req_list # <<>>
                            THEN normalize_skill_list(req_list, SKILL_ALIASES)
                            ELSE extract_skills(cleaned_desc),
        embedding |-> embed_text(cleaned_desc)]

\* UploadJobResponse
UploadJobResponse(job) ==
    [status |-> 200, required_skills |-> job.required_skills,
     embedding_dim |-> EMBEDDING_DIM, searched |-> FALSE]

\* descriptions of letters and spaces
Descriptions == UNION {[1..n -> {"a", "b", " "}] : n \in 0..(MaxTextLen - 1)}

\* JobIn.required_skills: absent, empty, or given
PayloadSkills == {[null |-> TRUE, value |-> <<>>],
                  [null |-> FALSE, value |-> <<>>],
                  [null |-> FALSE, value |-> << <<" ", "B">>, <<"a">> >>]}

\* the form field required_skills: absent, empty, separators only, or two names
FormSkills == {[null |-> TRUE, value |-> <<>>],
               [null |-> FALSE, value |-> <<>>],
               [null |-> FALSE, value |-> <<",", " ">>],
               [null |-> FALSE, value |-> <<"B", ";", ",", "a">>]}

\* the jobs table is empty; the resumes table has at most one row
InitUpload ==
    /\ pc = "upload"
    /\ NLP = "en_core_web_sm"
    /\ EMBEDDER \in Embedders
    /\ reload = NoReload
    /\ render = NoRender
    /\ registry_source = [readable |-> TRUE,
                          skills |-> << [name |-> <<"a", "b">>, aliases |-> << <<"b">> >>],
                                        [name |-> <<"a">>, aliases |-> <<>>] >>]
    /\ CANONICAL_SKILLS = LoadedRegistry(registry_source).canon
    /\ SKILL_ALIASES = LoadedRegistry(registry_source).aliases
    /\ SKILL_PATTERNS = CompiledPatternKeys(CANONICAL_SKILLS, SKILL_ALIASES)
    /\ SKILL_CANON_BY_PHRASE = BuiltPhraseMap(CANONICAL_SKILLS, SKILL_ALIASES)
    /\ SKILL_MATCHER = BuiltPhrases(CANONICAL_SKILLS, SKILL_ALIASES, {})
    /\ call = NoCall
    /\ db \in [job : {[found |-> FALSE]}, resumes : {t \in ResumeTables : Len(t) <= 1}]
    /\ request = NoRequest
    /\ response = NoResponse
    /\ ctx = NoCtx

\* POST /upload_job
UploadJob ==
    /\ pc = "upload"
    /\ \E description \in Descriptions, required_skills \in PayloadSkills :
          LET job == upload_job([description |-> description,
                                 required_skills |-> required_skills])
          IN /\ db' = [db EXCEPT !.job = job]
             /\ response' = UploadJobResponse(job)
    /\ pc' = "request"
    /\ UNCHANGED <<NLP, EMBEDDER, reload, render, registry_source, CANONICAL_SKILLS,
                   SKILL_ALIASES, SKILL_PATTERNS, SKILL_CANON_BY_PHRASE, SKILL_MATCHER,
                   call, request, ctx>>

\* POST /upload_job_form
UploadJobForm ==
    /\ pc = "upload"
    /\ \E description \in Descriptions, required_skills \in FormSkills :
          LET job == upload_job_form(description, required_skills)
          IN /\ db' = [db EXCEPT !.job = job]
             /\ response' = UploadJobResponse(job)
    /\ pc' = "request"
    /\ UNCHANGED <<NLP, EMBEDDER, reload, render, registry_source, CANONICAL_SKILLS,
                   SKILL_ALIASES, SKILL_PATTERNS, SKILL_CANON_BY_PHRASE, SKILL_MATCHER,
                   call, request, ctx>>

NextUpload ==
    \/ UploadJob
    \/ UploadJobForm
    \/ Match

SpecUpload == InitUpload /\ [][NextUpload]_vars

\* C30: every job upload_job or upload_job_form persists carries an embedding of
\* exactly EMBEDDING_DIM components, all zero when the cleaned description is empty or
\* no model is loaded and never empty, and a later match on it goes on to the
\* nearest-neighbour search rather than answering "job has no embedding"
C30_PersistedEmbedding ==
    /\ db.job.found =>
          /\ ~db.job.embedding.none
          /\ db.job.embedding.len = EMBEDDING_DIM
          /\ (db.job.description_cleaned = <<>> \/ EMBEDDER = "None") =>
                db.job.embedding.zero
    /\ pc = "responded" =>
          /\ response.status = 200
          /\ response.searched
          /\ response.note # "job has no embedding"

\* reached: a job uploaded with a blank description is matched and a resume is scored
C30_Witness ==
    /\ pc = "responded"
    /\ db.job.description_cleaned = <<>>
    /\ db.job.embedding.zero
    /\ response.searched
    /\ Len(response.results) > 0

====
